---- MODULE Spec2Model ----
(***************************************************************************)
(* Hardware intermediate representation of hwgen.py: signals (Sort /       *)
(* Integer), blocks, modules and the process-wide module stack, with the   *)
(* operators that build them, width inference, port discovery and the      *)
(* VHDL emitter.  A second group of variables carries the bit-level        *)
(* meaning of the wiring that ShiftBlock.generateVHDL emits.               *)
(***************************************************************************)
EXTENDS Integers, Sequences, FiniteSets, TLC

VARIABLES MODULE_STACK, modules, sigs, files, call, wire

vars == <<MODULE_STACK, modules, sigs, files, call, wire>>

(* ------------------------------ bounds --------------------------------- *)

MaxSignals == 3
MaxWidthSignals == 3
MaxModules == 2
MaxWidth == 2
MaxBuffer == 2
MaxShift == 2
MaxForced == 1
MaxBits == 3
MaxEmitSignals == 3
MaxShiftSignals == 3
MaxShiftWidth == 3
MaxInferSignals == 2
MaxInferModules == 1
CsdFrac == 3
MaxNum == 5
MaxCsdW == 4
MaxRows == 2
MaxCols == 2
MaxSlices == 2
MaxTarget == 2
MaxAdds == 1
MaxLzdFactors == 2
MaxTot == 5
MaxY == 4
MaxAccSignals == 4
MaxLzdIn == 1
MaxLzdNodes == 4
MaxLzdOut == 2
ConstFrac == 2
MaxConst == 4
MaxDecimals == 2
MaxConstWidth == 4
MaxConstSignals == 2
MaxInstSignals == 3
MaxInstModules == 2
MaxEntities == 1
MaxP2dRows == 2
MaxP2dSlices == 2
MaxP2dFactors == 2
MaxPad == 1

(* Python's None, for a width that is not set and for a missing return.   *)
None == 0
Widths == 1..MaxWidth
Buffers == 0..MaxBuffer
Shifts == (0 - MaxShift)..MaxShift
ShiftAmounts == (0 - MaxShiftWidth - 1)..(MaxShiftWidth + 1)

NoErr == "ok"

(* The fixed widths get_shifts of ccgen.py assigns to w and d.            *)
CodeW == 160
CodeD == 80

(* The iteration cap of decomp_p2d.                                        *)
PMax == 200

(* The digit counts gen_lzd passes to to_csd: pr1 integer digits of pr2.   *)
Pr1 == 2
Pr2 == 10
NoFile == [written |-> FALSE, ports |-> <<>>, decls |-> <<>>, conn |-> <<>>,
           gens |-> <<>>, transfers |-> <<>>, blocks |-> <<>>]
NoCall == [op |-> "none", mod |-> 0, a |-> 0, p |-> 0, ret |-> <<>>, err |-> NoErr]
NoWire == [W |-> 0, a |-> <<>>, p |-> 0, r1 |-> <<>>, r2 |-> <<>>, pc |-> "idle"]

(* ---------------------------- small helpers ---------------------------- *)

Range(s) == {s[i] : i \in 1..Len(s)}

Abs(x) == IF x < 0 THEN 0 - x ELSE x

RECURSIVE Concat(_)
Concat(ss) == IF Len(ss) = 0 THEN <<>> ELSE Head(ss) \o Concat(Tail(ss))

Mods == 1..Len(modules)
Sigs == 1..Len(sigs)

(* Module.MODULE_STACK[-1], the module a signal or block lands in when no *)
(* module is named.                                                        *)
StackTop == MODULE_STACK[Len(MODULE_STACK)]

(* --------------------------- Sort and Integer -------------------------- *)

(* Sort.__init__ and Integer.__init__: the fields of a fresh signal.      *)
(* determined is Integer._determined, set only for a width given at        *)
(* construction.                                                           *)
NewSort(m, w, b) ==
    [module |-> m, width |-> w, determined |-> (w # None), buffer |-> b,
     accessed |-> 0, assigned |-> 0, width_deps |-> <<>>, gens |-> <<>>]

(* Module.add_value *)
add_value(ms, m, s) == [ms EXCEPT ![m].values = Append(@, s)]

(* Module.add_block *)
add_block(ms, m, b) == [ms EXCEPT ![m].blocks = Append(@, b)]

(* Block.__init__: the block record; module None means the stack top.     *)
Block(kind, name, inputs, outputs, positions) ==
    [kind |-> kind, name |-> name, inputs |-> inputs, outputs |-> outputs,
     positions |-> positions, arith |-> TRUE]

(* ---------------------------- width inference ------------------------- *)

(* The state threaded through Integer.determine: the dictionary `others`   *)
(* (seen is its key set), every signal's _width attribute, and the raised  *)
(* exception, if any, with the signal it names.                            *)
DetState(S) ==
    [others |-> [i \in 1..Len(S) |-> None], seen |-> {},
     width |-> [i \in 1..Len(S) |-> S[i].width], err |-> NoErr, errsig |-> 0]

(* Integer.determine without the comparison of the two widths: a width    *)
(* is adopted from the neighbour and a disagreement is never reported.     *)
RelaxEdgeNoCheck(self, v, o, st) ==
    IF st.others[self] = None
    THEN [st EXCEPT !.others[self] =
              IF st.others[v] # None THEN st.others[v] + o ELSE None]
    ELSE st

(* One pass of the loop body of Integer.determine for the edge (v, o):    *)
(* adopt the neighbour's width when own is unset, then compare.            *)
RelaxEdge(self, v, o, st) ==
    LET s2 == IF st.others[self] = None
              THEN [st EXCEPT !.others[self] =
                        IF st.others[v] # None THEN st.others[v] + o ELSE None]
              ELSE st
    IN  IF s2.others[v] # None /\ s2.others[v] + o # s2.others[self]
        THEN [s2 EXCEPT !.err = "WidthIndeterminate", !.errsig = self]
        ELSE s2

RECURSIVE determine(_, _, _), determine_deps(_, _, _, _)
(* Integer.determine *)
determine(S, self, st) ==
    LET st0 == [st EXCEPT !.others[self] = st.width[self], !.seen = @ \cup {self}]
        st1 == determine_deps(S, self, 1, st0)
    IN  IF st1.err # NoErr THEN st1
        ELSE [st1 EXCEPT !.width[self] = st1.others[self]]

(* The for loop of Integer.determine over self._width_deps, from edge i.   *)
determine_deps(S, self, i, st) ==
    IF st.err # NoErr \/ i > Len(S[self].width_deps) THEN st
    ELSE LET v == S[self].width_deps[i][1]
             o == S[self].width_deps[i][2]
             s1 == IF v \notin st.seen THEN determine(S, v, st) ELSE st
         IN  IF s1.err # NoErr THEN s1
             ELSE determine_deps(S, self, i + 1, RelaxEdge(self, v, o, s1))

RECURSIVE DetFirstLoop(_, _, _, _), DetSecondLoop(_, _, _, _)
(* First loop of Module.determine_signals: one shared dictionary.          *)
DetFirstLoop(S, vals, i, st) ==
    IF st.err # NoErr \/ i > Len(vals) THEN st
    ELSE DetFirstLoop(S, vals, i + 1, determine(S, vals[i], st))

(* Second loop: a signal missing from the dictionary raises; otherwise a   *)
(* fresh dictionary {v: others[v]} per signal.                             *)
DetSecondLoop(S, vals, i, st) ==
    IF st.err # NoErr \/ i > Len(vals) THEN st
    ELSE IF vals[i] \notin st.seen
         THEN [st EXCEPT !.err = "WidthIndeterminate", !.errsig = vals[i]]
         ELSE LET fresh == [st EXCEPT !.others = [j \in 1..Len(S) |-> None],
                                      !.seen = {}]
                  done == determine(S, vals[i], fresh)
              IN  DetSecondLoop(S, vals, i + 1,
                                [done EXCEPT !.others = st.others, !.seen = st.seen])

(* Module.determine_signals on module record M: the inference state after. *)
determine_signals(S, M) ==
    IF M.determined THEN DetState(S)
    ELSE DetSecondLoop(S, M.values, 1, DetFirstLoop(S, M.values, 1, DetState(S)))

(* The inference also marking every signal it gave a width as pinned.     *)
WithWidthsPinned(S, st) ==
    [i \in 1..Len(S) |-> [S[i] EXCEPT !.width = st.width[i],
                                       !.determined = (st.width[i] # None)]]

(* The signals with the widths the inference left in _width.               *)
WithWidths(S, st) == [i \in 1..Len(S) |-> [S[i] EXCEPT !.width = st.width[i]]]

(* ------------------------- names and bit slices ------------------------ *)

(* A storage name: the plain signal name (b = -1) or b<i>_<name>.          *)
Plain(s) == [sig |-> s, b |-> 0 - 1]
Buf(s, i) == [sig |-> s, b |-> i]
NoArg == 0 - 1

(* Sort._access: the last buffer unless a valid buffer index is passed.    *)
SortAccess(S, s, buffer) ==
    IF S[s].buffer > 0
    THEN IF buffer # NoArg
         THEN IF buffer < 0 \/ buffer > S[s].buffer THEN Buf(s, S[s].buffer)
              ELSE Buf(s, buffer)
         ELSE Buf(s, S[s].buffer)
    ELSE Plain(s)

(* Sort._assign: buffer 0 unless a valid buffer index is passed.           *)
SortAssign(S, s, buffer) ==
    IF S[s].buffer > 0
    THEN IF buffer # NoArg
         THEN IF buffer < 0 \/ buffer > S[s].buffer THEN Buf(s, S[s].buffer)
              ELSE Buf(s, buffer)
         ELSE Buf(s, 0)
    ELSE Plain(s)

(* Integer.init: the declared storage names of a signal, in order.  The    *)
(* type string needs _width - 1, which fails on None (InitRaises).         *)
IntegerInit(S, s) ==
    IF S[s].buffer = 0 THEN <<Plain(s)>>
    ELSE [i \in 1..(S[s].buffer + 1) |-> Buf(s, i - 1)]

InitRaises(S, s) == S[s].width = None

Whole == [hi |-> 0 - 1, lo |-> 0 - 1]

(* Integer._access / Integer._assign with upper and lower (NoArg when not  *)
(* given): the slice, or the exception the range checks raise.             *)
Slice(S, s, upper, lower, keep_vector) ==
    IF S[s].width = None THEN [err |-> "WidthNotDetermined", hi |-> 0, lo |-> 0, bit |-> FALSE]
    ELSE IF upper = NoArg /\ lower = NoArg
         THEN [err |-> NoErr, hi |-> Whole.hi, lo |-> Whole.lo, bit |-> FALSE]
    ELSE LET up == IF upper = NoArg THEN S[s].width - 1 ELSE upper
             low == IF lower = NoArg THEN 0 ELSE lower
         IN  IF up >= S[s].width \/ low < 0
             THEN [err |-> "RangeInvalid", hi |-> up, lo |-> low, bit |-> FALSE]
             ELSE [err |-> NoErr, hi |-> up, lo |-> low,
                   bit |-> (up - low = 0 /\ ~keep_vector)]

(* A statement "dst <= src;" of the emitted text.  src.kind is "sig" (a    *)
(* slice of a name), "zeros" ((others => '0')), "rep" ((others => bit)),   *)
(* "lit" (a quoted literal) or an operator over names.                     *)
Stmt(dname, dsl, kind, sname, ssl, lit) ==
    [dst |-> dname, dhi |-> dsl.hi, dlo |-> dsl.lo, kind |-> kind,
     src |-> sname, shi |-> ssl.hi, slo |-> ssl.lo, lit |-> lit]

FirstErr(errs) ==
    IF \E i \in 1..Len(errs) : errs[i] # NoErr
    THEN errs[CHOOSE i \in 1..Len(errs) :
                 errs[i] # NoErr /\ \A j \in 1..(i - 1) : errs[j] = NoErr]
    ELSE NoErr

(* ShiftBlock.generateVHDL with the right shift filling the vacated high   *)
(* bits with zeros instead of the sign bit.                                *)
ShiftBlockVHDLZeroFill(S, blk) ==
    LET sig == blk.inputs[1]
        r == blk.outputs[1]
        positions == blk.positions
    IN  IF positions > 0
        THEN LET d1 == Slice(S, r, NoArg, positions, TRUE)
                 s1 == IF S[sig].width = None THEN Slice(S, sig, 0, NoArg, TRUE)
                       ELSE Slice(S, sig, S[sig].width - positions - 1, NoArg, TRUE)
                 d2 == Slice(S, r, positions - 1, NoArg, TRUE)
             IN  [err |-> FirstErr(<<d1.err,
                                     IF S[sig].width = None THEN "TypeError" ELSE NoErr,
                                     s1.err, d2.err>>),
                  lines |-> <<Stmt(SortAssign(S, r, NoArg), d1, "sig",
                                   SortAccess(S, sig, NoArg), s1, <<>>),
                              Stmt(SortAssign(S, r, NoArg), d2, "zeros",
                                   Plain(0), Whole, <<>>)>>]
        ELSE IF positions < 0
        THEN LET rw == S[r].width
                 d1 == Slice(S, r, rw + positions - 1, NoArg, TRUE)
                 s1 == Slice(S, sig, NoArg, 0 - positions, TRUE)
                 d2 == Slice(S, r, NoArg, rw + positions, TRUE)
             IN  [err |-> FirstErr(<<IF rw = None THEN "TypeError" ELSE NoErr,
                                     d1.err, s1.err, d2.err>>),
                  lines |-> <<Stmt(SortAssign(S, r, NoArg), d1, "sig",
                                   SortAccess(S, sig, NoArg), s1, <<>>),
                              Stmt(SortAssign(S, r, NoArg), d2, "zeros",
                                   Plain(0), Whole, <<>>)>>]
        ELSE [err |-> NoErr, lines |-> <<>>]

(* ShiftBlock.generateVHDL: two slice assignments; err is the first        *)
(* exception in evaluation order.                                          *)
ShiftBlockVHDL(S, blk) ==
    LET sig == blk.inputs[1]
        r == blk.outputs[1]
        positions == blk.positions
    IN  IF positions > 0
        THEN LET d1 == Slice(S, r, NoArg, positions, TRUE)
                 s1 == IF S[sig].width = None THEN Slice(S, sig, 0, NoArg, TRUE)
                       ELSE Slice(S, sig, S[sig].width - positions - 1, NoArg, TRUE)
                 d2 == Slice(S, r, positions - 1, NoArg, TRUE)
             IN  [err |-> FirstErr(<<d1.err,
                                     IF S[sig].width = None THEN "TypeError" ELSE NoErr,
                                     s1.err, d2.err>>),
                  lines |-> <<Stmt(SortAssign(S, r, NoArg), d1, "sig",
                                   SortAccess(S, sig, NoArg), s1, <<>>),
                              Stmt(SortAssign(S, r, NoArg), d2, "zeros",
                                   Plain(0), Whole, <<>>)>>]
        ELSE IF positions < 0
        THEN LET rw == S[r].width
                 sw == S[sig].width
                 d1 == Slice(S, r, rw + positions - 1, NoArg, TRUE)
                 s1 == Slice(S, sig, NoArg, 0 - positions, TRUE)
                 d2 == Slice(S, r, NoArg, rw + positions, TRUE)
                 s2 == Slice(S, sig, NoArg, sw - 1, FALSE)
             IN  [err |-> FirstErr(<<IF rw = None THEN "TypeError" ELSE NoErr,
                                     d1.err, s1.err, d2.err,
                                     IF blk.arith THEN s2.err ELSE NoErr>>),
                  lines |-> <<Stmt(SortAssign(S, r, NoArg), d1, "sig",
                                   SortAccess(S, sig, NoArg), s1, <<>>),
                              IF blk.arith
                              THEN Stmt(SortAssign(S, r, NoArg), d2, "rep",
                                        SortAccess(S, sig, NoArg), s2, <<>>)
                              ELSE Stmt(SortAssign(S, r, NoArg), d2, "zeros",
                                        Plain(0), Whole, <<>>)>>]
        ELSE [err |-> NoErr, lines |-> <<>>]

(* AssignBlock.generateVHDL and the binary signed operator blocks: whole   *)
(* names on both sides; _assign / _access fail on an unset width.          *)
PlainBlockVHDL(S, blk) ==
    LET r == blk.outputs[1]
        ws == <<S[r].width>> \o [i \in 1..Len(blk.inputs) |-> S[blk.inputs[i]].width]
    IN  [err |-> IF \E i \in 1..Len(ws) : ws[i] = None
                 THEN "WidthNotDetermined" ELSE NoErr,
         lines |-> <<[dst |-> SortAssign(S, r, NoArg), dhi |-> Whole.hi, dlo |-> Whole.lo,
                      kind |-> blk.name[1],
                      src |-> [i \in 1..Len(blk.inputs) |->
                                  SortAccess(S, blk.inputs[i], NoArg)],
                      shi |-> Whole.hi, slo |-> Whole.lo, lit |-> <<>>]>>]

(* block.generateVHDL(), dispatched on the block's class.                  *)
BlockVHDL(S, blk) ==
    IF blk.kind = "ShiftBlock" THEN ShiftBlockVHDL(S, blk) ELSE PlainBlockVHDL(S, blk)

(* ------------------------------ constants ------------------------------ *)

RECURSIVE ToBinary(_)
(* "{0:b}".format(k): the binary digits of k >= 0, most significant first. *)
ToBinary(k) == IF k < 2 THEN <<k>> ELSE Append(ToBinary(k \div 2), k % 2)

(* ("{0:0" + str(width) + "b}").format(k): padded with zeros to width.     *)
FormatBinary(k, width) ==
    LET d == ToBinary(k)
    IN  IF Len(d) >= width THEN d ELSE [i \in 1..(width - Len(d)) |-> 0] \o d

(* str.rfind("1") as a 0-based index, -1 when there is none.               *)
RFindOne(n) ==
    IF \E i \in 1..Len(n) : n[i] = 1
    THEN (CHOOSE i \in 1..Len(n) : n[i] = 1 /\ \A j \in (i + 1)..Len(n) : n[j] = 0) - 1
    ELSE 0 - 1

(* The literal of Integer.constant for magnitude k = int(abs(n)) and sign  *)
(* neg = (n < 0): for a negative value the digits left of the last 1 are   *)
(* inverted.                                                               *)
ConstantBits(k, neg, width) ==
    LET n == FormatBinary(k, width)
        r == RFindOne(n)
        cut == IF r < 0 THEN Len(n) + r ELSE r
    IN  IF ~neg THEN n
        ELSE [i \in 1..Len(n) |-> IF i <= cut THEN 1 - n[i] ELSE n[i]]

(* ------------------------------ port discovery ------------------------- *)

PortRec(pre, n, s, w) == [pre |-> pre, n |-> n, sig |-> s, w |-> w]

(* The first loop of Module.get_ports / Module.generateVHDL over the       *)
(* values: omitted signals are skipped, accessed == 0 is an out port       *)
(* (last storage name), else assigned == 0 is an in port (first name).     *)
RECURSIVE ValuePorts(_, _, _)
ValuePorts(S, M, i) ==
    IF i > Len(M.values) THEN <<>>
    ELSE LET v == M.values[i]
             ini == IntegerInit(S, v)
         IN  (IF v \in Range(M.ommited_ports) THEN <<>>
              ELSE IF S[v].accessed = 0
                   THEN <<PortRec("pout", ini[Len(ini)], v, S[v].width)>>
              ELSE IF S[v].assigned = 0
                   THEN <<PortRec("pin", ini[1], v, S[v].width)>>
              ELSE <<>>) \o ValuePorts(S, M, i + 1)

(* The second loop, over _forced_ports: a forced port is added only when   *)
(* the first loop has not already made the signal a port.  generateVHDL    *)
(* records each forced port it handles (dedup), get_ports does not.        *)
RECURSIVE ForcedPorts(_, _, _, _, _)
ForcedPorts(S, M, i, handled, dedup) ==
    IF i > Len(M.forced_ports) THEN <<>>
    ELSE LET v == M.forced_ports[i][1]
             d == M.forced_ports[i][2]
             ini == IntegerInit(S, v)
         IN  IF v \in handled THEN ForcedPorts(S, M, i + 1, handled, dedup)
             ELSE <<PortRec(IF d = "out" THEN "pout" ELSE "pin",
                            IF d = "out" THEN ini[Len(ini)] ELSE ini[1], v, S[v].width)>>
                  \o ForcedPorts(S, M, i + 1,
                                 IF dedup THEN handled \cup {v} ELSE handled, dedup)

(* All ports in the order the code finds them.                             *)
DiscoverPorts(S, M, dedup) ==
    LET first == ValuePorts(S, M, 1)
    IN  first \o ForcedPorts(S, M, 1, {first[i].sig : i \in 1..Len(first)}, dedup)

(* v.init() inside port discovery fails on a port whose width is None.     *)
PortsRaise(S, M, dedup) ==
    LET ps == DiscoverPorts(S, M, dedup)
    IN  \E i \in 1..Len(ps) : InitRaises(S, ps[i].sig)

(* ------------------------------- emission ------------------------------ *)

(* Mutation of the register loop: one transfer too many per signal.        *)
TransfersOffByOne(S, M) ==
    Concat([j \in 1..Len(M.values) |->
              [i \in 1..(S[M.values[j]].buffer + 1) |->
                 [dst |-> SortAssign(S, M.values[j], i),
                  src |-> SortAccess(S, M.values[j], i - 1)]]])

(* The body of the sync process: for i in range(v._buffer), the statement  *)
(* v._assign(buffer=i+1) <= v._access(buffer=i).                           *)
Transfers(S, M) ==
    Concat([j \in 1..Len(M.values) |->
              [i \in 1..S[M.values[j]].buffer |->
                 [dst |-> SortAssign(S, M.values[j], i),
                  src |-> SortAccess(S, M.values[j], i - 1)]]])

(* The signal declarations: every storage name of every value.             *)
Declarations(S, M) ==
    Concat([j \in 1..Len(M.values) |->
              [i \in 1..Len(IntegerInit(S, M.values[j])) |->
                 [n |-> IntegerInit(S, M.values[j])[i], w |-> S[M.values[j]].width]]])

(* Integer.generate for every value: the statements of its _gens.          *)
Generated(S, M) ==
    Concat([j \in 1..Len(M.values) |->
              [i \in 1..Len(S[M.values[j]].gens) |->
                 [dst |-> SortAssign(S, M.values[j], NoArg),
                  lit |-> S[M.values[j]].gens[i]]]])

(* The text Module.generateVHDL writes, and the first exception raised     *)
(* before the file is opened.                                              *)
ModuleVHDL(S, M) ==
    LET ps == DiscoverPorts(S, M, TRUE)
        bl == [i \in 1..Len(M.blocks) |-> BlockVHDL(S, M.blocks[i])]
    IN  [err |-> FirstErr(<<IF \E i \in 1..Len(M.values) : InitRaises(S, M.values[i])
                            THEN "TypeError" ELSE NoErr>>
                          \o <<IF PortsRaise(S, M, TRUE) THEN "TypeError" ELSE NoErr>>
                          \o [i \in 1..Len(bl) |-> bl[i].err]),
         file |-> [written |-> TRUE,
                   ports |-> Append(ps, PortRec("clk", Plain(0), 0, 1)),
                   decls |-> Declarations(S, M),
                   conn |-> [i \in 1..Len(ps) |-> [pre |-> ps[i].pre, n |-> ps[i].n]],
                   gens |-> Generated(S, M),
                   transfers |-> Transfers(S, M),
                   blocks |-> [i \in 1..Len(M.blocks) |->
                                 [name |-> M.blocks[i].name, lines |-> bl[i].lines]]]]

(* ------------------------- CSD digits and shifts ---------------------- *)

(* A coefficient is the integer k standing for the value k / 2^CsdFrac.    *)
Nums == (0 - MaxNum)..MaxNum

RECURSIVE Pow2(_)
Pow2(n) == IF n <= 0 THEN 1 ELSE 2 * Pow2(n - 1)

RECURSIVE BitLen(_)
BitLen(x) == IF x <= 0 THEN 0 ELSE 1 + BitLen(x \div 2)

(* The digit of weight 2^e in the canonical signed-digit form (no two      *)
(* adjacent non-zero digits) of the integer k.                             *)
RECURSIVE CsdDigit(_, _)
CsdDigit(k, e) ==
    IF k = 0 \/ e < 0 THEN 0
    ELSE LET d == IF k % 2 = 0 THEN 0 ELSE 2 - (k % 4)
         IN  IF e = 0 THEN d ELSE CsdDigit((k - d) \div 2, e - 1)

(* k / 2^s rounded to the nearest integer.                                 *)
RoundShift(k, s) == IF s <= 0 THEN k ELSE (k + Pow2(s - 1)) \div Pow2(s)

(* to_csd(value, int_bits, total_bits) for value = k / 2^CsdFrac: the      *)
(* digit of index i (0 the most significant) has weight 2^(int_bits-1-i);  *)
(* the value is first brought to total_bits - int_bits fractional digits.  *)
(* It fails when |value| >= 2^int_bits.                                    *)
to_csd(k, int_bits, total_bits) ==
    LET s == IF CsdFrac > total_bits - int_bits
             THEN CsdFrac - (total_bits - int_bits) ELSE 0
        q == RoundShift(k, s)
    IN  [err |-> IF BitLen(Abs(k)) > int_bits + CsdFrac THEN "OutOfRange" ELSE NoErr,
         digits |-> [j \in 1..total_bits |->
                       CsdDigit(q, int_bits - j + CsdFrac - s)]]

(* The for loop of get_shifts over the digits: one (position, sign) pair   *)
(* per non-zero digit, position w - d - i - 1 for the digit of index i.    *)
ShiftsOfDigits(csd, w, d) ==
    LET all == [j \in 1..Len(csd) |->
                  [pos |-> w - d - (j - 1) - 1, positive |-> csd[j] > 0, x |-> csd[j]]]
        nz == SelectSeq(all, LAMBDA r : r.x # 0)
    IN  [i \in 1..Len(nz) |-> <<nz[i].pos, nz[i].positive>>]

(* get_shifts of matrix_shift_add.py: it keeps the widths it is given and  *)
(* returns (abs_position, sign, power_of_2, shifts_needed) per digit.      *)
get_shifts_msa(value, total_bits, decimal_bits) ==
    LET csd == to_csd(value, total_bits - decimal_bits, total_bits)
        ps == ShiftsOfDigits(csd.digits, total_bits, decimal_bits)
    IN  [err |-> csd.err,
         shifts |-> IF csd.err = NoErr
                    THEN [i \in 1..Len(ps) |->
                            <<Abs(ps[i][1]), ps[i][2], Pow2(Abs(ps[i][1])), Abs(ps[i][1])>>]
                    ELSE <<>>]

(* get_shifts of ccgen.py: w and d are overwritten by 160 and 80 before    *)
(* the digits are computed.                                                *)
get_shifts(n, w, d) ==
    LET csd == to_csd(n, CodeW - CodeD, CodeW)
    IN  [err |-> csd.err,
         shifts |-> IF csd.err = NoErr
                    THEN ShiftsOfDigits(csd.digits, CodeW, CodeD) ELSE <<>>]

(* ------------------------------- Init ---------------------------------- *)

Init ==
    /\ MODULE_STACK = <<>>
    /\ modules = <<>>
    /\ sigs = <<>>
    /\ files = <<>>
    /\ call = NoCall
    /\ wire = NoWire

(* Module.__init__: the fields of a fresh module.                          *)
EmptyModule ==
    [values |-> <<>>, forced_ports |-> <<>>, ommited_ports |-> <<>>,
     blocks |-> <<>>, entities |-> <<>>, determined |-> FALSE]

(* Module.__init__ (not dummy): push on the stack.                         *)
NewModule(bound) ==
    /\ Len(modules) < bound
    /\ modules' = Append(modules, EmptyModule)
    /\ MODULE_STACK' = Append(MODULE_STACK, Len(modules) + 1)
    /\ files' = Append(files, NoFile)
    /\ call' = [NoCall EXCEPT !.op = "Module", !.mod = Len(modules) + 1]
    /\ UNCHANGED <<sigs, wire>>

(* Integer(width=w, buffer=b) with no module named: Sort.__init__ raises   *)
(* when no module is open, else the signal joins the stack top.            *)
NewInteger(w, b, bound) ==
    /\ Len(sigs) < bound
    /\ IF Len(MODULE_STACK) = 0
       THEN /\ call' = [NoCall EXCEPT !.op = "Integer", !.err = "NoOpenModule"]
            /\ UNCHANGED <<sigs, modules>>
       ELSE /\ sigs' = Append(sigs, NewSort(StackTop, w, b))
            /\ modules' = add_value(modules, StackTop, Len(sigs) + 1)
            /\ call' = [NoCall EXCEPT !.op = "Integer", !.ret = <<Len(sigs) + 1>>]
    /\ UNCHANGED <<MODULE_STACK, files, wire>>

(* Integer.add: result in a's module with a's width, edges of delta 0     *)
(* both ways, an Add2Block in a's module.                                  *)
Add(a, b, bound) ==
    /\ Len(sigs) < bound
    /\ LET r == Len(sigs) + 1
           m == sigs[a].module
           S1 == Append(sigs, NewSort(m, sigs[a].width, 0))
           S2 == [S1 EXCEPT ![r].width_deps = <<<<a, 0>>, <<b, 0>>>>,
                            ![r].assigned = @ + 1]
           S3 == [S2 EXCEPT ![a].width_deps = Append(@, <<r, 0>>)]
           S4 == [S3 EXCEPT ![b].width_deps = Append(@, <<r, 0>>)]
           S5 == [S4 EXCEPT ![a].accessed = @ + 1]
           S6 == [S5 EXCEPT ![b].accessed = @ + 1]
       IN  /\ sigs' = S6
           /\ modules' = add_block(add_value(modules, m, r), m,
                                   Block("Add2Block", <<"add2", 0>>, <<a, b>>, <<r>>, 0))
           /\ call' = [NoCall EXCEPT !.op = "add", !.ret = <<r>>]
    /\ UNCHANGED <<MODULE_STACK, files, wire>>

(* Integer.complement: result in a's module with a's width, edges of       *)
(* delta 0 both ways, and a ComplementBlock with no module named, which    *)
(* lands in the module on top of the stack and fails when none is open.    *)
Complement(a, bound) ==
    /\ Len(sigs) < bound
    /\ LET r == Len(sigs) + 1
           m == sigs[a].module
           S1 == Append(sigs, NewSort(m, sigs[a].width, 0))
           S2 == [S1 EXCEPT ![r].width_deps = <<<<a, 0>>>>, ![r].assigned = @ + 1]
           S3 == [S2 EXCEPT ![a].width_deps = Append(@, <<r, 0>>)]
           S4 == [S3 EXCEPT ![a].accessed = @ + 1]
           M1 == add_value(modules, m, r)
       IN  /\ sigs' = S4
           /\ IF Len(MODULE_STACK) = 0
              THEN /\ modules' = M1
                   /\ call' = [NoCall EXCEPT !.op = "complement", !.a = a,
                                             !.err = "NoOpenModule"]
              ELSE /\ modules' = add_block(M1, StackTop,
                                    Block("ComplementBlock", <<"comp", 0>>, <<a>>, <<r>>, 0))
                   /\ call' = [NoCall EXCEPT !.op = "complement", !.a = a, !.ret = <<r>>]
    /\ UNCHANGED <<MODULE_STACK, files, wire>>

(* Integer.mult: self._width*2 is evaluated first and fails on None; the   *)
(* four edges all carry +self._width.                                      *)
Mult(a, b, bound) ==
    /\ Len(sigs) < bound
    /\ IF sigs[a].width = None
       THEN /\ call' = [NoCall EXCEPT !.op = "mult", !.err = "TypeError"]
            /\ UNCHANGED <<sigs, modules>>
       ELSE LET r == Len(sigs) + 1
                m == sigs[a].module
                W == sigs[a].width
                S1 == Append(sigs, NewSort(m, W * 2, 0))
                S2 == [S1 EXCEPT ![r].width_deps = <<<<a, W>>, <<b, W>>>>,
                                 ![r].assigned = @ + 1]
                S3 == [S2 EXCEPT ![a].width_deps = Append(@, <<r, W>>)]
                S4 == [S3 EXCEPT ![b].width_deps = Append(@, <<r, W>>)]
                S5 == [S4 EXCEPT ![a].accessed = @ + 1]
                S6 == [S5 EXCEPT ![b].accessed = @ + 1]
            IN  /\ sigs' = S6
                /\ modules' = add_block(add_value(modules, m, r), m,
                                        Block("Mult2Block", <<"mult2", 0>>, <<a, b>>, <<r>>, 0))
                /\ call' = [NoCall EXCEPT !.op = "mult", !.ret = <<r>>]
    /\ UNCHANGED <<MODULE_STACK, files, wire>>

(* Module.determine_signals called directly.  A raise leaves the widths    *)
(* already written and the flag unset.                                     *)
DetermineSignals(m) ==
    /\ LET st == determine_signals(sigs, modules[m])
       IN  /\ sigs' = WithWidths(sigs, st)
           /\ modules' = IF st.err = NoErr THEN [modules EXCEPT ![m].determined = TRUE]
                         ELSE modules
           /\ call' = [NoCall EXCEPT !.op = "determine_signals", !.mod = m,
                                     !.a = st.errsig, !.err = st.err]
    /\ UNCHANGED <<MODULE_STACK, files, wire>>

(* Mutation of the degenerate-shift test: > in place of >=.                *)
ShiftDegenerateStrict(positions, W) == Abs(positions) > W

(* The elif of Integer.shift: abs(positions) >= self._width.               *)
ShiftDegenerate(positions, W) == Abs(positions) >= W

(* list.pop() on MODULE_STACK *)
Pop(stack) == SubSeq(stack, 1, Len(stack) - 1)

(* Integer.shift.  The result signal, counters and edges come first; then  *)
(* the block: an AssignBlock in a's module for 0 positions, for            *)
(* |positions| >= width a constant zero in a's module assigned by an       *)
(* AssignBlock with no module named, else a ShiftBlock with no module      *)
(* named.  The comparison with a None width fails, and a block with no     *)
(* module named fails when no module is open.  Nothing is returned.        *)
Shift(a, positions, bound) ==
    LET m == sigs[a].module
        W == sigs[a].width
        r == Len(sigs) + 1
        c == Len(sigs) + 2
        zero == positions # 0 /\ W # None /\ ShiftDegenerate(positions, W)
        S1 == Append(sigs, NewSort(m, W, 0))
        S2 == [S1 EXCEPT ![r].assigned = @ + 1, ![r].width_deps = <<<<a, 0>>>>]
        S3 == [S2 EXCEPT ![a].accessed = @ + 1]
        S4 == [S3 EXCEPT ![a].width_deps = Append(@, <<r, 0>>)]
        SC == Append(S4, [NewSort(m, W, 0) EXCEPT
                            !.assigned = 1,
                            !.gens = <<ConstantBits(0, FALSE, W)>>])
        M1 == add_value(modules, m, r)
        MC == add_value(M1, m, c)
        ret == [NoCall EXCEPT !.op = "shift", !.mod = m, !.a = a, !.p = positions]
    IN  /\ Len(sigs) + (IF zero THEN 2 ELSE 1) <= bound
        /\ IF positions = 0
           THEN /\ sigs' = S4
                /\ modules' = add_block(M1, m,
                                 Block("AssignBlock", <<"shift", 0>>, <<a>>, <<r>>, 0))
                /\ call' = ret
           ELSE IF W = None
           THEN /\ sigs' = S4
                /\ modules' = M1
                /\ call' = [ret EXCEPT !.err = "TypeError"]
           ELSE IF zero
           THEN /\ sigs' = SC
                /\ IF Len(MODULE_STACK) = 0
                   THEN /\ modules' = MC
                        /\ call' = [ret EXCEPT !.err = "NoOpenModule"]
                   ELSE /\ modules' = add_block(MC, StackTop,
                                 Block("AssignBlock", <<"shift", positions>>,
                                       <<c>>, <<r>>, 0))
                        /\ call' = ret
           ELSE /\ sigs' = S4
                /\ IF Len(MODULE_STACK) = 0
                   THEN /\ modules' = M1
                        /\ call' = [ret EXCEPT !.err = "NoOpenModule"]
                   ELSE /\ modules' = add_block(M1, StackTop,
                                 Block("ShiftBlock", <<"shift", positions>>,
                                       <<a>>, <<r>>, positions))
                        /\ call' = ret
        /\ UNCHANGED <<MODULE_STACK, files, wire>>

(* Module.add_port: the membership test compares the signal with the       *)
(* (signal, direction) pairs, so it never finds it and always appends.     *)
AddPort(m, v, d) ==
    /\ Len(modules[m].forced_ports) < MaxForced
    /\ modules' = [modules EXCEPT ![m].forced_ports = Append(@, <<v, d>>)]
    /\ call' = [NoCall EXCEPT !.op = "add_port"]
    /\ UNCHANGED <<MODULE_STACK, sigs, files, wire>>

(* Module.remove_port: same membership test, so it always appends.         *)
RemovePort(m, v) ==
    /\ Len(modules[m].ommited_ports) < MaxForced
    /\ modules' = [modules EXCEPT ![m].ommited_ports = Append(@, v)]
    /\ call' = [NoCall EXCEPT !.op = "remove_port"]
    /\ UNCHANGED <<MODULE_STACK, sigs, files, wire>>

(* Module.get_ports: inference first, then discovery; returns the pair     *)
(* (out ports, in ports).                                                  *)
GetPorts(m) ==
    /\ LET st == determine_signals(sigs, modules[m])
           S == WithWidths(sigs, st)
           ps == DiscoverPorts(S, modules[m], FALSE)
           ret == [NoCall EXCEPT !.op = "get_ports", !.mod = m]
       IN  /\ sigs' = S
           /\ IF st.err # NoErr
              THEN /\ modules' = modules
                   /\ call' = [ret EXCEPT !.a = st.errsig, !.err = st.err]
              ELSE /\ modules' = [modules EXCEPT ![m].determined = TRUE]
                   /\ IF PortsRaise(S, modules[m], FALSE)
                      THEN call' = [ret EXCEPT !.err = "TypeError"]
                      ELSE call' = [ret EXCEPT !.ret =
                                <<SelectSeq(ps, LAMBDA q : q.pre = "pout"),
                                  SelectSeq(ps, LAMBDA q : q.pre = "pin")>>]
    /\ UNCHANGED <<MODULE_STACK, files, wire>>

(* Module.generateVHDL: inference when some width is None, the text, the   *)
(* file, and a pop of whatever module is on top of the stack.              *)
GenerateVHDL(m) ==
    /\ LET infer == \E i \in 1..Len(modules[m].values) :
                        sigs[modules[m].values[i]].width = None
           st == IF infer THEN determine_signals(sigs, modules[m]) ELSE DetState(sigs)
           S == WithWidths(sigs, st)
           out == ModuleVHDL(S, modules[m])
           ret == [NoCall EXCEPT !.op = "generateVHDL", !.mod = m]
       IN  /\ sigs' = S
           /\ IF st.err # NoErr
              THEN /\ call' = [ret EXCEPT !.a = st.errsig, !.err = st.err]
                   /\ UNCHANGED <<modules, files, MODULE_STACK>>
              ELSE /\ modules' = IF infer THEN [modules EXCEPT ![m].determined = TRUE]
                                 ELSE modules
                   /\ IF out.err # NoErr
                      THEN /\ call' = [ret EXCEPT !.err = out.err]
                           /\ UNCHANGED <<files, MODULE_STACK>>
                      ELSE /\ files' = [files EXCEPT ![m] = out.file]
                           /\ IF Len(MODULE_STACK) = 0
                              THEN /\ call' = [ret EXCEPT !.err = "IndexError"]
                                   /\ UNCHANGED MODULE_STACK
                              ELSE /\ call' = ret
                                   /\ MODULE_STACK' = Pop(MODULE_STACK)
    /\ UNCHANGED wire

(* Building one module with buffered signals, declaring ports and         *)
(* emitting it.                                                            *)
Next ==
    \/ NewModule(1)
    \/ \E b \in Buffers : NewInteger(MaxWidth, b, MaxSignals)
    \/ \E a, b \in Sigs : Add(a, b, MaxSignals)
    \/ \E m \in Mods, v \in Sigs, d \in {"in", "out"} : AddPort(m, v, d)
    \/ \E m \in Mods, v \in Sigs : RemovePort(m, v)
    \/ \E m \in Mods : GetPorts(m)
    \/ \E m \in Mods : GenerateVHDL(m)

Spec == Init /\ [][Next]_vars

(* Operators over unbuffered signals in up to MaxModules modules, emitted  *)
(* in any order.                                                           *)
NextOps ==
    \/ NewModule(MaxModules)
    \/ \E w \in Widths \cup {None} : NewInteger(w, 0, MaxSignals)
    \/ \E a, b \in Sigs : Mult(a, b, MaxSignals)
    \/ \E a \in Sigs, p \in Shifts : Shift(a, p, MaxSignals)
    \/ \E m \in Mods : DetermineSignals(m)
    \/ \E m \in Mods : GenerateVHDL(m)

SpecOps == Init /\ [][NextOps]_vars

(* Buffered signals of one module, combined by add, and the emission.      *)
NextEmit ==
    \/ NewModule(1)
    \/ \E b \in Buffers : NewInteger(MaxWidth, b, MaxEmitSignals)
    \/ \E a, b \in Sigs : Add(a, b, MaxEmitSignals + 1)
    \/ \E m \in Mods : GenerateVHDL(m)

SpecEmit == Init /\ [][NextEmit]_vars

(* Shifts of signals of every width up to MaxShiftWidth by every amount    *)
(* up to one more than the width, and the emission.                        *)
NextShift ==
    \/ NewModule(1)
    \/ \E w \in 1..MaxShiftWidth : NewInteger(w, 0, MaxShiftSignals)
    \/ \E a \in Sigs, p \in ShiftAmounts : Shift(a, p, MaxShiftSignals)
    \/ \E m \in Mods : GenerateVHDL(m)

SpecShift == Init /\ [][NextShift]_vars

(* Modules whose signals have the least width, the greatest, or none when  *)
(* they are emitted, so that the emission runs the inference first.        *)
NextInfer ==
    \/ NewModule(MaxInferModules)
    \/ \E w \in {1, MaxWidth, None} : NewInteger(w, 0, MaxInferSignals)
    \/ \E a, b \in Sigs : Add(a, b, MaxInferSignals + 1)
    \/ \E m \in Mods : GenerateVHDL(m)

SpecInfer == Init /\ [][NextInfer]_vars

(* Operators applied to signals of any module while another module may be *)
(* on top of the stack.                                                    *)
NextOwner ==
    \/ NewModule(MaxModules)
    \/ NewInteger(MaxWidth, 0, MaxSignals)
    \/ \E a, b \in Sigs : Add(a, b, MaxSignals)
    \/ \E a \in Sigs : Complement(a, MaxSignals)
    \/ \E a \in Sigs, p \in Shifts : Shift(a, p, MaxSignals)

SpecOwner == Init /\ [][NextOwner]_vars

(* Width-dependency graphs of one module and their inference.              *)
NextWidth ==
    \/ NewModule(1)
    \/ \E w \in Widths \cup {None} : NewInteger(w, 0, MaxWidthSignals)
    \/ \E a, b \in Sigs : Add(a, b, MaxWidthSignals)
    \/ \E a, b \in Sigs : Mult(a, b, MaxWidthSignals)
    \/ \E m \in Mods : DetermineSignals(m)

SpecWidth == Init /\ [][NextWidth]_vars

(* --------------------- bit-level meaning of the wiring ----------------- *)

(* A W-bit vector is a function on 0..W-1, index 0 the least significant   *)
(* bit, as in "W-1 downto 0"; 2 stands for a bit no statement has driven.  *)
Undriven(W) == [i \in 0..(W - 1) |-> 2]

(* The effect of one emitted statement on the destination vector r, given  *)
(* the source vector a.                                                    *)
ApplyStmt(st, r, a, W) ==
    LET whole == st.dhi = Whole.hi
        dlo == IF whole THEN 0 ELSE st.dlo
        dhi == IF whole THEN W - 1 ELSE st.dhi
        slo == IF st.shi = Whole.hi THEN 0 ELSE st.slo
    IN  [i \in 0..(W - 1) |->
            IF i < dlo \/ i > dhi THEN r[i]
            ELSE IF st.kind = "zeros" THEN 0
            ELSE IF st.kind = "rep" THEN a[slo]
            ELSE IF st.kind = "lit" THEN st.lit[W - i]
            ELSE a[slo + (i - dlo)]]

RECURSIVE ApplyStmts(_, _, _, _)
ApplyStmts(sts, r, a, W) ==
    IF Len(sts) = 0 THEN r
    ELSE ApplyStmts(Tail(sts), ApplyStmt(Head(sts), r, a, W), a, W)

(* The value the wiring of shift(a, positions) drives onto the result for  *)
(* a W-bit input: the plain assignment, the constant-zero literal, or the  *)
(* two slice statements of the ShiftBlock.                                 *)
ShiftValue(a, W, positions) ==
    LET S == <<NewSort(1, W, 0), NewSort(1, W, 0)>>
        blk == Block("ShiftBlock", <<"shift", positions>>, <<1>>, <<2>>, positions)
    IN  IF positions = 0 THEN a
        ELSE IF ShiftDegenerate(positions, W)
             THEN [i \in 0..(W - 1) |-> ConstantBits(0, FALSE, W)[W - i]]
             ELSE ApplyStmts(ShiftBlockVHDL(S, blk).lines, Undriven(W), a, W)

(* The bit-level round trip: shift by p, then by -p.                       *)
WireInit ==
    /\ MODULE_STACK = <<>>
    /\ modules = <<>>
    /\ sigs = <<>>
    /\ files = <<>>
    /\ call = NoCall
    /\ wire \in UNION {{[W |-> w, a |-> a, p |-> p, r1 |-> <<>>, r2 |-> <<>>,
                           pc |-> "start"] :
                            a \in [0..(w - 1) -> {0, 1}],
                            p \in (0 - MaxBits)..MaxBits} : w \in 1..MaxBits}

WireShift ==
    /\ wire.pc = "start"
    /\ wire' = [wire EXCEPT !.r1 = ShiftValue(wire.a, wire.W, wire.p), !.pc = "shifted"]
    /\ UNCHANGED <<MODULE_STACK, modules, sigs, files, call>>

WireShiftBack ==
    /\ wire.pc = "shifted"
    /\ wire' = [wire EXCEPT !.r2 = ShiftValue(wire.r1, wire.W, 0 - wire.p), !.pc = "done"]
    /\ UNCHANGED <<MODULE_STACK, modules, sigs, files, call>>

NextWire == WireShift \/ WireShiftBack

SpecWire == WireInit /\ [][NextWire]_vars

(* get_shifts applied to every coefficient and every pair of widths.       *)
CsdInit ==
    /\ MODULE_STACK = <<>>
    /\ modules = <<>>
    /\ sigs = <<>>
    /\ files = <<>>
    /\ wire = NoWire
    /\ call \in {[NoCall EXCEPT !.op = f, !.a = n, !.p = <<w, d>>] :
                    f \in {"call get_shifts", "call msa_get_shifts"},
                    n \in Nums, w \in 1..MaxCsdW, d \in 0..MaxCsdW}
    /\ call.p[2] <= call.p[1]

GetShifts ==
    /\ call.op = "call get_shifts"
    /\ LET r == get_shifts(call.a, call.p[1], call.p[2])
       IN  call' = [call EXCEPT !.op = "get_shifts", !.ret = r.shifts, !.err = r.err]
    /\ UNCHANGED <<MODULE_STACK, modules, sigs, files, wire>>

GetShiftsMsa ==
    /\ call.op = "call msa_get_shifts"
    /\ LET r == get_shifts_msa(call.a, call.p[1], call.p[2])
       IN  call' = [call EXCEPT !.op = "msa_get_shifts", !.ret = r.shifts, !.err = r.err]
    /\ UNCHANGED <<MODULE_STACK, modules, sigs, files, wire>>

NextCsd == GetShifts \/ GetShiftsMsa

SpecCsd == CsdInit /\ [][NextCsd]_vars

(* ------------------------------ gen_fblock ---------------------------- *)

(* Python's bool as the int it is: True == 1, False == 0.                  *)
BoolInt(b) == IF b THEN 1 ELSE 0

(* Integer.shift on a given state: the new signals and blocks, the         *)
(* exception if one is raised, and the returned value, which is None.      *)
shift(S, Ms, stack, a, positions) ==
    LET m == S[a].module
        W == S[a].width
        r == Len(S) + 1
        c == Len(S) + 2
        S1 == Append(S, NewSort(m, W, 0))
        S2 == [S1 EXCEPT ![r].assigned = @ + 1, ![r].width_deps = <<<<a, 0>>>>]
        S3 == [S2 EXCEPT ![a].accessed = @ + 1]
        S4 == [S3 EXCEPT ![a].width_deps = Append(@, <<r, 0>>)]
        SC == Append(S4, [NewSort(m, W, 0) EXCEPT
                            !.assigned = 1,
                            !.gens = <<ConstantBits(0, FALSE, W)>>])
        M1 == add_value(Ms, m, r)
        MC == add_value(M1, m, c)
        top == stack[Len(stack)]
    IN  IF positions = 0
        THEN [sigs |-> S4, err |-> NoErr, ret |-> None,
              modules |-> add_block(M1, m,
                             Block("AssignBlock", <<"shift", 0>>, <<a>>, <<r>>, 0))]
        ELSE IF W = None
        THEN [sigs |-> S4, err |-> "TypeError", ret |-> None, modules |-> M1]
        ELSE IF ShiftDegenerate(positions, W)
        THEN IF Len(stack) = 0
             THEN [sigs |-> SC, err |-> "NoOpenModule", ret |-> None, modules |-> MC]
             ELSE [sigs |-> SC, err |-> NoErr, ret |-> None,
                   modules |-> add_block(MC, top,
                                  Block("AssignBlock", <<"shift", positions>>,
                                        <<c>>, <<r>>, 0))]
        ELSE IF Len(stack) = 0
             THEN [sigs |-> S4, err |-> "NoOpenModule", ret |-> None, modules |-> M1]
             ELSE [sigs |-> S4, err |-> NoErr, ret |-> None,
                   modules |-> add_block(M1, top,
                                  Block("ShiftBlock", <<"shift", positions>>,
                                        <<a>>, <<r>>, positions))]

(* Integer.add and Integer.sub on a given state: the result signal is      *)
(* returned; kind is Add2Block or Sub2Block.  A receiver or operand that   *)
(* is None has no such attribute.                                          *)
add_sub(S, Ms, kind, a, b) ==
    IF a = None \/ b = None
    THEN [sigs |-> S, modules |-> Ms, err |-> "AttributeError", ret |-> None]
    ELSE LET r == Len(S) + 1
             m == S[a].module
             S1 == Append(S, NewSort(m, S[a].width, 0))
             S2 == [S1 EXCEPT ![r].width_deps = <<<<a, 0>>, <<b, 0>>>>,
                              ![r].assigned = @ + 1]
             S3 == [S2 EXCEPT ![a].width_deps = Append(@, <<r, 0>>)]
             S4 == [S3 EXCEPT ![b].width_deps = Append(@, <<r, 0>>)]
             S5 == [S4 EXCEPT ![a].accessed = @ + 1]
             S6 == [S5 EXCEPT ![b].accessed = @ + 1]
         IN  [sigs |-> S6, err |-> NoErr, ret |-> r,
              modules |-> add_block(add_value(Ms, m, r), m,
                             Block(kind, <<IF kind = "Add2Block" THEN "add2" ELSE "sub2", 0>>,
                                   <<a, b>>, <<r>>, 0))]

(* The behaviour tag Integer.add3 chooses and whether it swaps the two     *)
(* other operands: the signs are compared with the ints 1 and -1.          *)
add3_beh(sign1, sign2) ==
    IF sign1 = 1 /\ sign2 = 0 - 1 THEN [beh |-> "add_subw", swap |-> FALSE]
    ELSE IF sign1 = 0 - 1 /\ sign2 = 1 THEN [beh |-> "add_subw", swap |-> TRUE]
    ELSE IF sign1 = 0 - 1 /\ sign2 = 0 - 1 THEN [beh |-> "sub_subw", swap |-> FALSE]
    ELSE [beh |-> "add_addw", swap |-> FALSE]

(* Integer.add3 on a given state: the result signal, an add8_3w entity     *)
(* with the chosen behaviour in the receiver's module, counters and edges. *)
add3(S, Ms, self, other1, other2, sign1, sign2) ==
    IF self = None \/ other1 = None \/ other2 = None
    THEN [sigs |-> S, modules |-> Ms, err |-> "AttributeError", ret |-> None]
    ELSE LET r == Len(S) + 1
             m == S[self].module
             b == add3_beh(sign1, sign2)
             o1 == IF b.swap THEN other2 ELSE other1
             o2 == IF b.swap THEN other1 ELSE other2
             S1 == Append(S, NewSort(m, S[self].width, 0))
             S2 == [S1 EXCEPT ![self].accessed = @ + 1]
             S3 == [S2 EXCEPT ![o1].accessed = @ + 1]
             S4 == [S3 EXCEPT ![o2].accessed = @ + 1]
             S5 == [S4 EXCEPT ![r].assigned = @ + 1]
             S6 == [S5 EXCEPT ![self].width_deps = Append(@, <<r, 0>>)]
             S7 == [S6 EXCEPT ![o1].width_deps = Append(@, <<r, 0>>)]
             S8 == [S7 EXCEPT ![o2].width_deps = Append(@, <<r, 0>>)]
             S9 == [S8 EXCEPT ![r].width_deps = <<<<self, 0>>, <<o1, 0>>, <<o2, 0>>>>]
         IN  [sigs |-> S9, err |-> NoErr, ret |-> r,
              modules |-> [add_value(Ms, m, r) EXCEPT ![m].entities =
                             Append(@, [beh |-> b.beh, a |-> self, b |-> o1,
                                        c |-> o2, d |-> r])]]

(* The (column, position, positive) terms of matrix line `line`, in the    *)
(* order gen_fblock meets them; a position below -D is replaced by -D.     *)
RowTerms(line, W, D) ==
    Concat([x \in 1..Len(line) |->
              IF line[x] = 0 THEN <<>>
              ELSE LET shifts == get_shifts(line[x], W, D).shifts
                   IN  [i \in 1..Len(shifts) |->
                          <<x, IF shifts[i][1] < 0 - D THEN 0 - D ELSE shifts[i][1],
                            shifts[i][2]>>]])

(* The inner loops of gen_fblock for one line: v[x].shift for every term,  *)
(* collecting (v_shifted, positive) in accs.                               *)
RECURSIVE ShiftTerms(_, _, _, _)
ShiftTerms(st, stack, v, terms) ==
    IF Len(terms) = 0 \/ st.err # NoErr THEN st
    ELSE LET t == Head(terms)
             s == shift(st.sigs, st.modules, stack, v[t[1]], t[2])
         IN  ShiftTerms([st EXCEPT !.sigs = s.sigs, !.modules = s.modules,
                                   !.err = s.err,
                                   !.accs = Append(@, <<s.ret, t[3]>>)],
                        stack, v, Tail(terms))

(* The three if statements of gen_fblock on len(accs).                     *)
ReduceRow(st) ==
    LET accs == st.accs
        done(r) == [st EXCEPT !.sigs = r.sigs, !.modules = r.modules, !.err = r.err,
                              !.z = IF r.err = NoErr THEN Append(@, r.ret) ELSE @]
    IN  IF st.err # NoErr THEN st
        ELSE IF Len(accs) = 1 THEN [st EXCEPT !.z = Append(@, accs[1][1])]
        ELSE IF Len(accs) = 2
        THEN IF accs[1][2] /\ accs[2][2]
             THEN done(add_sub(st.sigs, st.modules, "Add2Block", accs[1][1], accs[2][1]))
             ELSE IF accs[1][2] /\ ~accs[2][2]
             THEN done(add_sub(st.sigs, st.modules, "Sub2Block", accs[1][1], accs[2][1]))
             ELSE IF ~accs[1][2] /\ accs[2][2]
             THEN done(add_sub(st.sigs, st.modules, "Sub2Block", accs[2][1], accs[1][1]))
             ELSE done(add_sub(st.sigs, st.modules, "Add2Block", accs[1][1], accs[2][1]))
        ELSE IF Len(accs) = 3
        THEN IF BoolInt(accs[1][2]) > 0
             THEN done(add3(st.sigs, st.modules, accs[1][1], accs[2][1], accs[3][1],
                            BoolInt(accs[2][2]), BoolInt(accs[3][2])))
             ELSE IF BoolInt(accs[2][2]) > 0
             THEN done(add3(st.sigs, st.modules, accs[2][1], accs[1][1], accs[3][1],
                            BoolInt(accs[1][2]), BoolInt(accs[3][2])))
             ELSE done(add3(st.sigs, st.modules, accs[3][1], accs[1][1], accs[2][1],
                            BoolInt(accs[1][2]), BoolInt(accs[2][2])))
        ELSE st

(* The loop of gen_fblock over the matrix lines.                           *)
RECURSIVE ScanLines(_, _, _, _, _, _)
ScanLines(st, stack, v, M, W, D) ==
    IF Len(M) = 0 \/ st.err # NoErr THEN st
    ELSE ScanLines(ReduceRow(ShiftTerms([st EXCEPT !.accs = <<>>], stack, v,
                                        RowTerms(Head(M), W, D))),
                   stack, v, Tail(M), W, D)

(* The matrices, as lists of lines.  An even coefficient has the digits of *)
(* its odd part at shifted positions, so the entries are odd or zero.      *)
Coefs == {k \in Nums : k = 0 \/ k % 2 = 1}

Matrices ==
    UNION {[1..r -> [1..c -> Coefs]] : r \in 1..MaxRows, c \in 1..MaxCols}

(* gen_fblock applied to every matrix and every pair of widths.            *)
FblockInit ==
    /\ MODULE_STACK = <<>>
    /\ modules = <<>>
    /\ sigs = <<>>
    /\ files = <<>>
    /\ wire = NoWire
    /\ call \in {[NoCall EXCEPT !.op = "call gen_fblock", !.a = M, !.p = <<w, d>>] :
                    M \in Matrices, w \in {MaxCsdW}, d \in {1, MaxCsdW - 1}}

(* gen_fblock: a new module on the stack, one input per column with its    *)
(* access counter raised, then the lines.  z is the local list of line     *)
(* results; the module is returned.                                        *)
gen_fblock(S, Ms, stack0, M, W, D) ==
    LET mod == Len(Ms) + 1
        stack == Append(stack0, mod)
        cols == Len(M[1])
        v == [i \in 1..cols |-> Len(S) + i]
        S0 == S \o [i \in 1..cols |-> [NewSort(mod, W, 0) EXCEPT !.accessed = 1]]
        M0 == [Append(Ms, EmptyModule) EXCEPT ![mod].values = v]
        st == ScanLines([sigs |-> S0, modules |-> M0, err |-> NoErr,
                         accs |-> <<>>, z |-> <<>>], stack, v, M, W, D)
    IN  [sigs |-> st.sigs, modules |-> st.modules, stack |-> stack,
         err |-> st.err, z |-> st.z, mod |-> mod]

GenFblock ==
    /\ call.op = "call gen_fblock"
    /\ LET r == gen_fblock(sigs, modules, MODULE_STACK, call.a, call.p[1], call.p[2])
       IN  /\ MODULE_STACK' = r.stack
           /\ sigs' = r.sigs
           /\ modules' = r.modules
           /\ files' = Append(files, NoFile)
           /\ call' = [call EXCEPT !.op = "gen_fblock", !.mod = r.mod,
                                   !.ret = r.z, !.err = r.err]
    /\ UNCHANGED wire

NextFblock == GenFblock

SpecFblock == FblockInit /\ [][NextFblock]_vars

(* ------------------------------ decomp.py ----------------------------- *)

(* Accuracies in dB as integers; MaxTarget + 1 stands for every value      *)
(* above the targets, the infinity of an exact approximation included.     *)
SqnrValues == 0..(MaxTarget + 1)
Targets == 0..MaxTarget

(* A factor list: np.eye followed by n factors W.                          *)
FactorList(n) == <<"eye">> \o [i \in 1..n |-> "W"]

(* Mutation of the cap test: one more iteration is let through.            *)
CapExceededLate(p) == p > PMax + 1

(* The test `if p > 200` of decomp_p2d.                                    *)
CapExceeded(p) == p > PMax

(* The frame of a running decomp_p2d: call.a holds the arguments (the      *)
(* number of slices len(S), sqnr_target), the adders get_adds reports for  *)
(* a factor of this matrix, and the locals factors, snr, adds; call.p is   *)
(* the local p; iters counts the passes through the while body.            *)
P2dFrame(k, target, cost) ==
    [NoCall EXCEPT !.op = "decomp_p2d",
                   !.a = [slices |-> k, sqnr_target |-> target, cost |-> cost,
                          factors |-> [s \in 1..k |-> FactorList(0)],
                          snr |-> 0, adds |-> 0, iters |-> 0, pc |-> "while"],
                   !.p = 0]

(* The arguments of decomp_lzd: sqnr_target and max_add.                   *)
LzdFrame(target, max_add) ==
    [NoCall EXCEPT !.op = "call decomp_lzd",
                   !.a = [sqnr_target |-> target, max_add |-> max_add]]

DecompInit ==
    /\ MODULE_STACK = <<>>
    /\ modules = <<>>
    /\ sigs = <<>>
    /\ files = <<>>
    /\ wire = NoWire
    /\ call \in {P2dFrame(k, tg, c) : k \in 1..MaxSlices, tg \in Targets, c \in 0..MaxAdds}
                  \cup {LzdFrame(tg, ma) : tg \in Targets, ma \in 0..MaxAdds}

(* One pass through the while body of decomp_p2d: p += 1, one factor per   *)
(* slice from dp2d with its adders, the new accuracy from SNRmat, and the  *)
(* cap test, which returns None (an empty ret).                            *)
P2dIterate ==
    /\ call.op = "decomp_p2d"
    /\ call.a.pc = "while"
    /\ call.a.snr < call.a.sqnr_target
    /\ \E snr \in SqnrValues :
          LET p == call.p + 1
              f == [call.a EXCEPT
                      !.factors = [s \in 1..call.a.slices |-> Append(call.a.factors[s], "W")],
                      !.adds = @ + call.a.slices * call.a.cost,
                      !.snr = snr,
                      !.iters = @ + 1]
          IN  IF CapExceeded(p)
              THEN call' = [call EXCEPT !.p = p, !.a = [f EXCEPT !.pc = "returned"],
                                        !.ret = <<>>]
              ELSE call' = [call EXCEPT !.p = p, !.a = f]
    /\ UNCHANGED <<MODULE_STACK, modules, sigs, files, wire>>

(* The while test of decomp_p2d fails: return factors, snr, adds, p.       *)
P2dReturn ==
    /\ call.op = "decomp_p2d"
    /\ call.a.pc = "while"
    /\ ~(call.a.snr < call.a.sqnr_target)
    /\ call' = [call EXCEPT !.a.pc = "returned",
                            !.ret = <<call.a.factors, call.a.snr, call.a.adds, call.p>>]
    /\ UNCHANGED <<MODULE_STACK, modules, sigs, files, wire>>

(* dlzd(M, sqnr_target, max_add): the solver stops on the target or on the *)
(* adder budget and returns (P, W, Pj, adds) either way; P is kept as the  *)
(* accuracy SNRmat(M, P) and W as its length.                              *)
dlzd(target, max_add) ==
    {[snr |-> s, lenW |-> n, adds |-> a] :
        s \in SqnrValues, n \in 0..MaxLzdFactors, a \in 0..max_add}

(* decomp_lzd: unpack the solver's tuple and return                        *)
(* W+[Pj], SNRmat(M, P), adds, len(W)+1.                                   *)
DecompLzd ==
    /\ call.op = "call decomp_lzd"
    /\ \E r \in dlzd(call.a.sqnr_target, call.a.max_add) :
          call' = [call EXCEPT !.op = "decomp_lzd",
                               !.ret = <<[i \in 1..r.lenW |-> "W"] \o <<"Pj">>,
                                          r.snr, r.adds, r.lenW + 1>>]
    /\ UNCHANGED <<MODULE_STACK, modules, sigs, files, wire>>

NextDecomp == P2dIterate \/ P2dReturn \/ DecompLzd

SpecDecomp == DecompInit /\ [][NextDecomp]_vars

(* Each call runs on: no step of decomp.py waits for anything.             *)
SpecDecompFair == SpecDecomp /\ WF_vars(NextDecomp)

(* ------------------------- generate_all_slicings ---------------------- *)

RECURSIVE SumSeq(_)
SumSeq(s) == IF Len(s) = 0 THEN 0 ELSE Head(s) + SumSeq(Tail(s))

(* The for loop of generate_all_slicings over the factors 1..y for the     *)
(* list s taken from the queue: f is skipped when it overshoots tot, s+[f] *)
(* is complete when it sums to tot and queued otherwise.                   *)
RECURSIVE ExtendSlicing(_, _, _, _, _)
ExtendSlicing(fr, s, f, tot, y) ==
    IF f > y THEN fr
    ELSE IF SumSeq(s) + f > tot THEN ExtendSlicing(fr, s, f + 1, tot, y)
    ELSE LET x == Append(s, f)
         IN  IF SumSeq(x) = tot
             THEN ExtendSlicing([fr EXCEPT !.slicings_done = Append(@, x)], s, f + 1, tot, y)
             ELSE ExtendSlicing([fr EXCEPT !.ss = Append(@, x)], s, f + 1, tot, y)

(* generate_all_slicings(tot, y) before its loop: the queue holds the      *)
(* one-element lists [1] .. [y].                                           *)
SlicingFrame(tot, y) ==
    [NoCall EXCEPT !.op = "generate_all_slicings",
                   !.a = [tot |-> tot, y |-> y, ss |-> [x \in 1..y |-> <<x>>],
                          slicings_done |-> <<>>, pc |-> "while"]]

SlicingInit ==
    /\ MODULE_STACK = <<>>
    /\ modules = <<>>
    /\ sigs = <<>>
    /\ files = <<>>
    /\ wire = NoWire
    /\ call \in {SlicingFrame(tot, y) : tot \in 1..MaxTot, y \in 1..MaxY}

(* One pass of the while loop: take the head of the queue and extend it.   *)
SlicingStep ==
    /\ call.op = "generate_all_slicings"
    /\ call.a.pc = "while"
    /\ Len(call.a.ss) > 0
    /\ call' = [call EXCEPT !.a = ExtendSlicing([call.a EXCEPT !.ss = Tail(@)],
                                                Head(call.a.ss), 1, call.a.tot, call.a.y)]
    /\ UNCHANGED <<MODULE_STACK, modules, sigs, files, wire>>

(* The queue is empty: return slicings_done.                               *)
SlicingReturn ==
    /\ call.op = "generate_all_slicings"
    /\ call.a.pc = "while"
    /\ Len(call.a.ss) = 0
    /\ call' = [call EXCEPT !.a.pc = "returned", !.ret = call.a.slicings_done]
    /\ UNCHANGED <<MODULE_STACK, modules, sigs, files, wire>>

NextSlicing == SlicingStep \/ SlicingReturn

SpecSlicing == SlicingInit /\ [][NextSlicing]_vars /\ WF_vars(NextSlicing)

(* ------------------------------ Integer.acc --------------------------- *)

(* Mutation of the split of the operand list: the left part is one operand. *)
AccSplitOne(n) == 1

(* len(sigs)//2, where acc cuts the list into left and right.              *)
AccSplit(n) == n \div 2

(* Integer.acc on a given state: the empty list raises, one operand is     *)
(* returned as it is, two are added, three go to add3 when tia is set, and *)
(* a longer list is cut in two, both parts accumulated, the results added. *)
RECURSIVE acc(_, _, _, _)
acc(S, Ms, list, tia) ==
    IF Len(list) = 0
    THEN [sigs |-> S, modules |-> Ms, err |-> "EmptyAccumulation", ret |-> None]
    ELSE IF Len(list) = 1
    THEN [sigs |-> S, modules |-> Ms, err |-> NoErr, ret |-> list[1]]
    ELSE IF Len(list) = 2 THEN add_sub(S, Ms, "Add2Block", list[1], list[2])
    ELSE IF Len(list) = 3 /\ tia THEN add3(S, Ms, list[1], list[2], list[3], 1, 1)
    ELSE LET h == AccSplit(Len(list))
             r1 == acc(S, Ms, SubSeq(list, 1, h), tia)
             r2 == acc(r1.sigs, r1.modules, SubSeq(list, h + 1, Len(list)), tia)
         IN  IF r1.err # NoErr THEN r1
             ELSE IF r2.err # NoErr THEN r2
             ELSE add_sub(r2.sigs, r2.modules, "Add2Block", r1.ret, r2.ret)

(* The operand lists: any of the existing signals, in creation order.      *)
RECURSIVE SeqOfSet(_)
SeqOfSet(s) ==
    IF s = {} THEN <<>>
    ELSE LET x == CHOOSE y \in s : \A z \in s : y <= z
         IN  <<x>> \o SeqOfSet(s \ {x})

AccLists == {SeqOfSet(s) : s \in SUBSET Sigs}

(* Integer.acc(list, tia=tia) *)
Acc(list, tia) ==
    /\ Len(sigs) <= MaxAccSignals
    /\ LET r == acc(sigs, modules, list, tia)
       IN  /\ sigs' = r.sigs
           /\ modules' = r.modules
           /\ call' = [NoCall EXCEPT !.op = "acc", !.a = list, !.p = BoolInt(tia),
                                     !.ret = IF r.err = NoErr THEN <<r.ret>> ELSE <<>>,
                                     !.err = r.err]
    /\ UNCHANGED <<MODULE_STACK, files, wire>>

NextAcc ==
    \/ NewModule(1)
    \/ NewInteger(MaxWidth, 0, MaxAccSignals)
    \/ \E list \in AccLists, tia \in BOOLEAN : Acc(list, tia)

SpecAcc == Init /\ [][NextAcc]_vars

(* ------------------------------- gen_lzd ------------------------------ *)

(* Nodes are numbered from 0 and layers from 0 as in the source: layer L   *)
(* of graph is graph[L + 1] here, and column i of a row is row[i + 1].     *)
NotFound == 0 - 1

(* Mutation of max: the last element.                                      *)
MaxOfSeqLast(s) == s[Len(s)]

(* max over a non-empty list *)
RECURSIVE MaxOfSeq(_)
MaxOfSeq(s) ==
    IF Len(s) = 1 THEN s[1]
    ELSE LET m == MaxOfSeq(Tail(s)) IN IF s[1] > m THEN s[1] ELSE m

(* find_in_graph(graph, i): the highest layer holding node i, None if no   *)
(* layer does (buffers holds only nodes that are in the graph).            *)
find_in_graph(graph, i) ==
    LET ls == {L \in 0..(Len(graph) - 1) : i \in Range(graph[L + 1])}
    IN  IF ls = {} THEN NotFound ELSE CHOOSE L \in ls : \A K \in ls : K <= L

(* Dependency extraction for factor p (0-based): one dependency            *)
(* [source, target, sign, shift] per non-zero digit of every non-zero      *)
(* entry of the first row.                                                 *)
LzdRowDeps(row, p, D0) ==
    Concat([c \in 1..Len(row) |->
              IF row[c] = 0 THEN <<>>
              ELSE LET digits == to_csd(row[c], Pr1, Pr2).digits
                       nz == SelectSeq([j \in 1..Len(digits) |-> IF digits[j] # 0 THEN j ELSE 0],
                                       LAMBDA j : j # 0)
                   IN  [n \in 1..Len(nz) |->
                          <<p - (c - 1) + D0 - 1, p + D0,
                            IF row[c] < 0 THEN 0 - 1 ELSE 1, Pr1 - (nz[n] - 1) - 1>>]])

LzdDeps(mats, D0) == [q \in 1..Len(mats) |-> LzdRowDeps(mats[q], q - 1, D0)]

(* The terminal nodes read from Pj: one per non-zero entry, row by row.    *)
LzdFinalNodes(Pj, nmats, D0) ==
    Concat([x \in 1..Len(Pj) |->
              LET cs == SelectSeq([y \in 1..Len(Pj[x]) |-> IF Pj[x][y] # 0 THEN y ELSE 0],
                                  LAMBDA y : y # 0)
              IN  [n \in 1..Len(cs) |-> nmats + D0 - 1 - (cs[n] - 1)]])

(* graph.append([]) until layer x + 1 exists, then the node joins it.      *)
RECURSIVE GraphPut(_, _, _)
GraphPut(graph, L, n) ==
    IF L >= Len(graph) THEN GraphPut(Append(graph, <<>>), L, n)
    ELSE [graph EXCEPT ![L + 1] = Append(@, n)]

(* The loop that inserts the node of every factor one layer above the      *)
(* highest of its sources.                                                 *)
RECURSIVE LzdInsert(_, _, _, _)
LzdInsert(fr, deps, q, D0) ==
    IF q > Len(deps) \/ fr.err # NoErr THEN fr
    ELSE IF Len(deps[q]) = 0 THEN [fr EXCEPT !.err = "ValueError"]
    ELSE LET ls == [n \in 1..Len(deps[q]) |-> find_in_graph(fr.graph, deps[q][n][1])]
         IN  IF NotFound \in Range(ls) THEN [fr EXCEPT !.err = "TypeError"]
             ELSE LzdInsert([fr EXCEPT !.graph = GraphPut(@, MaxOfSeq(ls) + 1, (q - 1) + D0)],
                            deps, q + 1, D0)

(* Mutation of the last-layer test: the first layer is looked at.          *)
InFirstLayer(graph, fn) == fn \in Range(graph[1])

(* fn in graph[-1] *)
InLastLayer(graph, fn) == fn \in Range(graph[Len(graph)])

(* The loop over range(D[1]) that gives every terminal outside the last    *)
(* layer a new node in the last layer and a dependency [fn, nn].           *)
RECURSIVE LzdPatchLoop(_, _, _)
LzdPatchLoop(fr, i, D1) ==
    IF i > D1 \/ fr.err # NoErr THEN fr
    ELSE IF i > Len(fr.final_nodes) THEN [fr EXCEPT !.err = "IndexError"]
    ELSE LET fn == fr.final_nodes[i]
             last == Len(fr.graph)
         IN  IF InLastLayer(fr.graph, fn) THEN LzdPatchLoop(fr, i + 1, D1)
             ELSE LzdPatchLoop([fr EXCEPT !.graph[last] = Append(@, fr.nn),
                                          !.deps = Append(@, <<<<fn, fr.nn>>>>),
                                          !.final_nodes[i] = fr.nn,
                                          !.nn = @ + 1], i + 1, D1)

(* Mutation of the buffer lookup: no buffer is ever found.                 *)
BuffersOfNone(buffers, na) == <<>>

(* buffers[na] for the dictionary kept as (source, buffer) pairs.          *)
BuffersOf(buffers, na) ==
    LET mine == SelectSeq(buffers, LAMBDA b : b[1] = na)
    IN  [n \in 1..Len(mine) |-> mine[n][2]]

(* The inner loop of buffer insertion for the dependency e0 -> e1, from    *)
(* layer i down to the layer above a: an existing buffer of e0 in layer i  *)
(* ends the chain, else a new buffer nn joins layer i.                     *)
RECURSIVE LzdChain(_, _, _, _, _)
LzdChain(fr, e0, ne, i, a) ==
    IF i <= a THEN [fr EXCEPT !.edges = Append(@, <<e0, ne>>)]
    ELSE LET bufs == SelectSeq(BuffersOf(fr.buffers, e0),
                               LAMBDA x : find_in_graph(fr.graph, x) = i)
         IN  IF Len(bufs) > 0 THEN [fr EXCEPT !.edges = Append(@, <<bufs[1], ne>>)]
             ELSE LzdChain([fr EXCEPT !.graph[i + 1] = Append(@, fr.nn),
                                      !.edges = Append(@, <<fr.nn, ne>>),
                                      !.buffers = Append(@, <<e0, fr.nn>>),
                                      !.nn = @ + 1], e0, fr.nn, i - 1, a)

(* The loops over the dependencies that build the edge list.               *)
RECURSIVE LzdEdges(_, _)
LzdEdges(fr, es) ==
    IF Len(es) = 0 THEN fr
    ELSE LET e == Head(es)
             a == find_in_graph(fr.graph, e[1])
             b == find_in_graph(fr.graph, e[2])
         IN  LzdEdges(LzdChain(fr, e[1], e[2], b - 1, a), Tail(es))

(* The factor chains: every factor has one or two non-zero entries in its  *)
(* first row, over the nodes that exist before it; Pj selects one node per *)
(* output.                                                                 *)
LzdCoefs == {Pow2(CsdFrac), 3 * Pow2(CsdFrac - 2)}

LzdRows(L) ==
    {r \in [1..L -> LzdCoefs \cup {0}] : Cardinality({c \in 1..L : r[c] # 0}) \in 1..2}

RECURSIVE LzdChains(_, _)
LzdChains(D0, n) ==
    IF n = 0 THEN {<<>>}
    ELSE {Append(ms, r) : ms \in LzdChains(D0, n - 1), r \in LzdRows(n - 1 + D0)}

LzdSelections(D1, nodes) ==
    {[x \in 1..D1 |-> [y \in 1..nodes |-> IF y = pick[x] THEN 1 ELSE 0]] :
        pick \in [1..D1 -> 1..nodes]}

(* gen_lzd(D, mats, W) before its first statement.                         *)
GenLzdFrame(D0, D1, mats, Pj, W) ==
    [NoCall EXCEPT !.op = "gen_lzd",
                   !.a = [D0 |-> D0, D1 |-> D1, mats |-> mats, Pj |-> Pj, W |-> W,
                          deps |-> <<>>, graph |-> <<>>, final_nodes |-> <<>>,
                          buffers |-> <<>>, edges |-> <<>>, nn |-> 0,
                          v |-> <<>>, stack |-> <<>>, err |-> NoErr, pc |-> "extract"]]

LzdInit ==
    /\ MODULE_STACK = <<>>
    /\ modules = <<>>
    /\ sigs = <<>>
    /\ files = <<>>
    /\ wire = NoWire
    /\ \E D0 \in 1..MaxLzdIn, D1 \in 1..MaxLzdOut :
          \E n \in 0..(MaxLzdNodes - D0) :
             \E mats \in LzdChains(D0, n), Pj \in LzdSelections(D1, n + D0) :
                call = GenLzdFrame(D0, D1, mats, Pj, MaxWidth)

(* An exception leaves gen_lzd.                                            *)
LzdRaise(fr) == [call EXCEPT !.a = [fr EXCEPT !.pc = "raised"], !.err = fr.err]

(* Dependency extraction, the terminals of Pj and the layer of every       *)
(* factor's node.                                                          *)
LzdLayers ==
    /\ call.op = "gen_lzd"
    /\ call.a.pc = "extract"
    /\ LET f == call.a
           deps == LzdDeps(f.mats, f.D0)
           g0 == << [n \in 1..f.D0 |-> f.D0 - n] >>
           f1 == LzdInsert([f EXCEPT !.deps = deps, !.graph = g0,
                                     !.final_nodes = LzdFinalNodes(f.Pj, Len(f.mats), f.D0),
                                     !.nn = Len(f.mats) + f.D0],
                           deps, 1, f.D0)
       IN  call' = IF f1.err # NoErr THEN LzdRaise(f1)
                   ELSE [call EXCEPT !.a = [f1 EXCEPT !.pc = "patch"]]
    /\ UNCHANGED <<MODULE_STACK, modules, sigs, files, wire>>

(* Terminal patching.                                                      *)
LzdPatch ==
    /\ call.op = "gen_lzd"
    /\ call.a.pc = "patch"
    /\ LET f1 == LzdPatchLoop(call.a, 1, call.a.D1)
       IN  call' = IF f1.err # NoErr THEN LzdRaise(f1)
                   ELSE [call EXCEPT !.a = [f1 EXCEPT !.pc = "buffers"]]
    /\ UNCHANGED <<MODULE_STACK, modules, sigs, files, wire>>

(* The edge list with its buffer chains.                                   *)
LzdBuffers ==
    /\ call.op = "gen_lzd"
    /\ call.a.pc = "buffers"
    /\ call' = [call EXCEPT !.a = [LzdEdges(call.a, Concat(call.a.deps)) EXCEPT !.pc = "open"]]
    /\ UNCHANGED <<MODULE_STACK, modules, sigs, files, wire>>

(* Integer.copy(name, module) on a given state: a new signal of the same   *)
(* width in the given module, edges of delta 0 both ways, both counters.   *)
copy(S, Ms, self, module) ==
    LET x == Len(S) + 1
        S1 == Append(S, NewSort(module, S[self].width, 0))
        S2 == [S1 EXCEPT ![x].width_deps = <<<<self, 0>>>>, ![x].assigned = @ + 1]
        S3 == [S2 EXCEPT ![self].width_deps = Append(@, <<x, 0>>), ![self].accessed = @ + 1]
    IN  [sigs |-> S3, modules |-> add_value(Ms, module, x), err |-> NoErr, ret |-> x]

(* edge_in[n]: the edges that end in n, in the order of the edge list.     *)
EdgeIn(edges, n) == SelectSeq(edges, LAMBDA e : e[2] = n)

(* The module lzd, one input signal per node of layer 0, and the work      *)
(* queue of the nodes D[0], D[0]+1, ... that have an edge_in entry.        *)
LzdOpen ==
    /\ call.op = "gen_lzd"
    /\ call.a.pc = "open"
    /\ LET f == call.a
           mod == Len(modules) + 1
           ins == f.graph[1]
           nodes == Range(Concat(f.graph))
           first == CHOOSE n \in f.D0..(f.nn + 1) : n \notin nodes
       IN  /\ modules' = [Append(modules, EmptyModule) EXCEPT
                             ![mod].values = [i \in 1..Len(ins) |-> Len(sigs) + i]]
           /\ MODULE_STACK' = Append(MODULE_STACK, mod)
           /\ files' = Append(files, NoFile)
           /\ sigs' = sigs \o [i \in 1..Len(ins) |-> NewSort(mod, f.W, 0)]
           /\ call' = [call EXCEPT
                         !.mod = mod,
                         !.a = [f EXCEPT
                                  !.v = [n \in 0..(f.nn - 1) |->
                                           IF \E i \in 1..Len(ins) : ins[i] = n
                                           THEN Len(sigs) + (CHOOSE i \in 1..Len(ins) : ins[i] = n)
                                           ELSE None],
                                  !.stack = [i \in 1..(first - f.D0) |-> f.D0 + i - 1],
                                  !.pc = "emit"]]
    /\ UNCHANGED wire

(* One pass of the work queue: a node with one incoming edge is a copy of  *)
(* its source, a node with two is the sum of its two sources, both shifted *)
(* by the fourth component of the first edge; a node whose source has no   *)
(* signal yet goes back to the end of the queue; any other node is only    *)
(* taken off the queue.                                                    *)
LzdEmit ==
    /\ call.op = "gen_lzd"
    /\ call.a.pc = "emit"
    /\ Len(call.a.stack) > 0
    /\ LET f == call.a
           n == Head(f.stack)
           rest == Tail(f.stack)
           ein == EdgeIn(f.edges, n)
           requeue == /\ call' = [call EXCEPT !.a.stack = Append(rest, n)]
                      /\ UNCHANGED <<sigs, modules>>
           raise(S, Ms, e) == /\ sigs' = S
                              /\ modules' = Ms
                              /\ call' = [call EXCEPT !.a.stack = rest, !.a.pc = "raised",
                                                      !.a.err = e, !.err = e]
       IN  IF Len(ein) = 1
           THEN IF f.v[ein[1][1]] = None THEN requeue
                ELSE LET r == copy(sigs, modules, f.v[ein[1][1]], call.mod)
                     IN  /\ sigs' = r.sigs
                         /\ modules' = r.modules
                         /\ call' = [call EXCEPT !.a.stack = rest,
                                                 !.a.v[ein[1][2]] = r.ret]
           ELSE IF Len(ein) = 2
           THEN IF f.v[ein[1][1]] = None \/ f.v[ein[2][1]] = None THEN requeue
                ELSE IF Len(ein[1]) < 4 THEN raise(sigs, modules, "IndexError")
                ELSE LET ax == shift(sigs, modules, MODULE_STACK, f.v[ein[1][1]], ein[1][4])
                         bx == shift(ax.sigs, ax.modules, MODULE_STACK, f.v[ein[2][1]], ein[1][4])
                         r == add_sub(bx.sigs, bx.modules, "Add2Block", ax.ret, bx.ret)
                     IN  IF ax.err # NoErr THEN raise(ax.sigs, ax.modules, ax.err)
                         ELSE IF bx.err # NoErr THEN raise(bx.sigs, bx.modules, bx.err)
                         ELSE IF r.err # NoErr THEN raise(r.sigs, r.modules, r.err)
                         ELSE /\ sigs' = r.sigs
                              /\ modules' = r.modules
                              /\ call' = [call EXCEPT !.a.stack = rest,
                                                      !.a.v[ein[1][2]] = r.ret]
           ELSE /\ call' = [call EXCEPT !.a.stack = rest]
                /\ UNCHANGED <<sigs, modules>>
    /\ UNCHANGED <<MODULE_STACK, files, wire>>

(* The queue is empty: return mod.                                         *)
LzdReturn ==
    /\ call.op = "gen_lzd"
    /\ call.a.pc = "emit"
    /\ Len(call.a.stack) = 0
    /\ call' = [call EXCEPT !.a.pc = "returned", !.ret = <<call.mod>>]
    /\ UNCHANGED <<MODULE_STACK, modules, sigs, files, wire>>

NextLzd == LzdLayers \/ LzdPatch \/ LzdBuffers \/ LzdOpen \/ LzdEmit \/ LzdReturn

SpecLzd == LzdInit /\ [][NextLzd]_vars /\ WF_vars(NextLzd)

(* ============================== claims ================================= *)

(* The state right after a successful emission of module m, or a           *)
(* successful get_ports of it.                                             *)
Emitted(m) == call.op = "generateVHDL" /\ call.mod = m /\ call.err = NoErr
GotPorts(m) == call.op = "get_ports" /\ call.mod = m /\ call.err = NoErr

(* The ports the last call reported for module m.                          *)
ReportedPorts(m) ==
    IF Emitted(m) THEN files[m].ports ELSE call.ret[1] \o call.ret[2]

IsInPort(m, s) ==
    \E i \in 1..Len(ReportedPorts(m)) :
        ReportedPorts(m)[i].sig = s /\ ReportedPorts(m)[i].pre = "pin"
IsOutPort(m, s) ==
    \E i \in 1..Len(ReportedPorts(m)) :
        ReportedPorts(m)[i].sig = s /\ ReportedPorts(m)[i].pre = "pout"

IsForced(m, s) ==
    \E i \in 1..Len(modules[m].forced_ports) : modules[m].forced_ports[i][1] = s
IsOmitted(m, s) == s \in Range(modules[m].ommited_ports)

(* C1: after port discovery every signal of the module that is neither     *)
(* forced nor omitted is an input port iff assigned = 0 and accessed > 0,  *)
(* an output port iff accessed = 0 and assigned > 0, and internal          *)
(* otherwise (in particular when both counters are 0).                     *)
C1_PortClassification ==
    \A m \in Mods : (Emitted(m) \/ GotPorts(m)) =>
        \A s \in Range(modules[m].values) :
            (~IsForced(m, s) /\ ~IsOmitted(m, s)) =>
                /\ IsInPort(m, s) <=> (sigs[s].assigned = 0 /\ sigs[s].accessed > 0)
                /\ IsOutPort(m, s) <=> (sigs[s].accessed = 0 /\ sigs[s].assigned > 0)

(* C2: a signal forced as 'in' whose accessed counter is 0 is emitted as   *)
(* an input port and not as an output port.                                *)
C2_ForcedInOverrides ==
    \A m \in Mods : (Emitted(m) \/ GotPorts(m)) =>
        \A i \in 1..Len(modules[m].forced_ports) :
            LET s == modules[m].forced_ports[i][1]
            IN  (modules[m].forced_ports[i][2] = "in" /\ sigs[s].accessed = 0) =>
                    (IsInPort(m, s) /\ ~IsOutPort(m, s))

(* The declared names and the transfers of signal s in the file of m.      *)
DeclaredNames(m, s) ==
    SelectSeq([i \in 1..Len(files[m].decls) |-> files[m].decls[i].n],
              LAMBDA n : n.sig = s)
TransfersOf(m, s) == SelectSeq(files[m].transfers, LAMBDA x : x.dst.sig = s)

(* C3: a signal with register depth k gets exactly k+1 declared storage    *)
(* names (the plain name for k = 0, b0_ .. bk_ otherwise) and exactly k    *)
(* transfers b{i} <= b{i-1}, i = 1..k, in the synchronous process.         *)
C3_RegisterExpansion ==
    \A m \in Mods : Emitted(m) =>
        \A s \in Range(modules[m].values) :
            LET k == sigs[s].buffer
            IN  /\ Len(DeclaredNames(m, s)) = k + 1
                /\ k = 0 => DeclaredNames(m, s) = <<[sig |-> s, b |-> 0 - 1]>>
                /\ k > 0 => DeclaredNames(m, s) = [i \in 1..(k + 1) |-> [sig |-> s, b |-> i - 1]]
                /\ Len(TransfersOf(m, s)) = k
                /\ \A i \in 1..Len(TransfersOf(m, s)) :
                       TransfersOf(m, s)[i] = [dst |-> [sig |-> s, b |-> i],
                                               src |-> [sig |-> s, b |-> i - 1]]

(* C3 witness: a module emitted with a signal of the deepest register      *)
(* chain and one without registers.                                        *)
C3_Witness ==
    \E m \in Mods : Emitted(m) /\
        \E s, u \in Range(modules[m].values) : sigs[s].buffer = MaxBuffer /\ sigs[u].buffer = 0

(* The pinned widths and the dependency walks of the graph: a walk from v  *)
(* to u with cumulative delta d asserts width(v) = width(u) + d.           *)
Pinned(s) == sigs[s].determined

WalkStep(prev) ==
    prev \cup UNION {{<<w[1], sigs[w[2]].width_deps[i][1],
                        w[3] + sigs[w[2]].width_deps[i][2]>> :
                          i \in 1..Len(sigs[w[2]].width_deps)} : w \in prev}

RECURSIVE Walks(_)
Walks(k) == IF k = 0 THEN {<<v, v, 0>> : v \in Sigs} ELSE WalkStep(Walks(k - 1))

(* The widths the pins reachable from v demand for v.                      *)
Demanded(ws, v) == {sigs[w[2]].width + w[3] : w \in {x \in ws : x[1] = v /\ Pinned(x[2])}}

InferenceOf(m) == call.op = "determine_signals" /\ call.mod = m

WidthInferenceBody(m) ==
    LET ws == Walks(Len(sigs))
        vals == Range(modules[m].values)
    IN  /\ (\A v \in vals : Cardinality(Demanded(ws, v)) = 1) =>
               /\ call.err = NoErr
               /\ \A v \in vals : Demanded(ws, v) = {sigs[v].width}
        /\ (\E v \in vals : Pinned(v) /\ Demanded(ws, v) # {sigs[v].width}) =>
               call.err = "WidthIndeterminate"

C5_UnpinnedRaises ==
    \A m \in Mods : InferenceOf(m) =>
        LET ws == Walks(Len(sigs))
            unpinned == {v \in Range(modules[m].values) : Demanded(ws, v) = {}}
        IN  unpinned # {} => (call.err = "WidthIndeterminate" /\ call.a \in unpinned)

(* A module holding nothing but products a.mult(b) of operands pinned to   *)
(* one common width.                                                       *)
MultOnly(m) ==
    /\ Len(modules[m].blocks) > 0
    /\ \A i \in 1..Len(modules[m].blocks) :
          LET blk == modules[m].blocks[i]
          IN  /\ blk.kind = "Mult2Block"
              /\ Pinned(blk.inputs[1]) /\ Pinned(blk.inputs[2])
              /\ sigs[blk.inputs[1]].width = sigs[blk.inputs[2]].width
    /\ \A v \in Range(modules[m].values) :
          \E i \in 1..Len(modules[m].blocks) :
              v \in Range(modules[m].blocks[i].inputs) \cup Range(modules[m].blocks[i].outputs)

(* C6: after r = a.mult(b) with a and b pinned to width W, r has width 2W  *)
(* and determine_signals on the module completes without error, leaving a  *)
(* and b at W and r at 2W.                                                 *)
C6_MultInference ==
    \A m \in Mods : MultOnly(m) =>
        /\ \A i \in 1..Len(modules[m].blocks) :
              LET blk == modules[m].blocks[i]
              IN  sigs[blk.outputs[1]].width = 2 * sigs[blk.inputs[1]].width
        /\ InferenceOf(m) => call.err = NoErr

(* C7: shift returns a new signal, distinct from its operand, of the same  *)
(* width and in the operand's module.                                      *)
C7_ShiftReturnsSignal ==
    (call.op = "shift" /\ call.err = NoErr) =>
        /\ Len(call.ret) = 1
        /\ \A i \in 1..Len(call.ret) :
              /\ call.ret[i] \in Sigs
              /\ call.ret[i] # call.a
              /\ sigs[call.ret[i]].width = sigs[call.a].width
              /\ sigs[call.ret[i]].module = sigs[call.a].module

(* All blocks of all modules, and the blocks a step appended.              *)
AllBlocks == Concat([m \in Mods |-> modules[m].blocks])
Appended(m) ==
    SubSeq(modules[m].blocks', Len(modules[m].blocks) + 1, Len(modules[m].blocks'))
AllAppended == Concat([m \in Mods |-> Appended(m)])

(* What a completed shift(a, p) must have appended: one block for the new  *)
(* result signal, of the kind the shift amount selects.                    *)
ShiftAppendsOne ==
    LET a == call'.a
        p == call'.p
        W == sigs[a].width
        r == Len(sigs) + 1
        blk == AllAppended[1]
    IN  /\ Len(AllAppended) = 1
        /\ blk.outputs = <<r>>
        /\ p = 0 => (blk.kind = "AssignBlock" /\ blk.inputs = <<a>>)
        /\ (p # 0 /\ Abs(p) >= W) =>
              /\ blk.kind = "AssignBlock"
              /\ Len(blk.inputs) = 1
              /\ blk.inputs[1] \notin {a, r}
              /\ sigs'[blk.inputs[1]].width = W
              /\ sigs'[blk.inputs[1]].gens = <<[i \in 1..W |-> 0]>>
        /\ (p # 0 /\ Abs(p) < W) =>
              (blk.kind = "ShiftBlock" /\ blk.inputs = <<a>> /\ blk.positions = p)

(* The slices of every emitted statement lie inside the vectors.           *)
SlicesInRange(m) ==
    \A i \in 1..Len(files[m].blocks) :
        \A j \in 1..Len(files[m].blocks[i].lines) :
            LET st == files[m].blocks[i].lines[j]
            IN  /\ st.dhi # Whole.hi =>
                      (0 <= st.dlo /\ st.dlo <= st.dhi /\ st.dhi < sigs[st.dst.sig].width)
                /\ (st.kind \in {"sig", "rep"} /\ st.shi # Whole.hi) =>
                      (0 <= st.slo /\ st.slo <= st.shi /\ st.shi < sigs[st.src.sig].width)

(* C8: a completed shift(a, p) appends exactly one block for the result:   *)
(* an Assign from a for p = 0, an Assign from a constant zero of width(a)  *)
(* for |p| >= width(a), a ShiftBlock only for 0 < |p| < width(a); and the  *)
(* emitted slices of ShiftBlocks are always in range (emission never       *)
(* raises the range error).                                                *)
C8_ShiftBlocks ==
    /\ [][(call'.op = "shift" /\ call'.err = NoErr /\ sigs' # sigs) => ShiftAppendsOne]_vars
    /\ [](call.err # "RangeInvalid" /\ \A m \in Mods : Emitted(m) => SlicesInRange(m))

(* C8 witness: a module was emitted whose blocks include the ShiftBlock of *)
(* a right shift by less than the width, with its two slice statements.    *)
C8_Witness ==
    \E m \in Mods : Emitted(m) /\
        \E i \in 1..Len(files[m].blocks) :
            /\ files[m].blocks[i].name[1] = "shift"
            /\ files[m].blocks[i].name[2] < 0
            /\ Len(files[m].blocks[i].lines) = 2

(* C10: a module is on the module stack from its construction until its    *)
(* own emission, and emitting m removes m itself, whatever the order of    *)
(* emission.                                                               *)
C10_StackUntilEmission ==
    \A m \in Mods : (m \in Range(MODULE_STACK)) <=> ~files[m].written

(* Two's-complement size of a: the least k such that bits k-1 .. W-1 are   *)
(* all equal to the sign bit.                                              *)
MeaningfulBits(a, W) ==
    CHOOSE k \in 1..W :
        /\ \A i \in (k - 1)..(W - 1) : a[i] = a[W - 1]
        /\ \A j \in 1..(k - 1) : \E i \in (j - 1)..(W - 1) : a[i] # a[W - 1]

(* C9 as stated: shift by 0 is the identity, and for every p with          *)
(* |p| + meaningful_bits(a) <= W, shift by p then by -p restores a.        *)
C9_Original ==
    /\ (wire.pc # "start" /\ wire.p = 0) => wire.r1 = wire.a
    /\ (wire.pc = "done" /\ Abs(wire.p) + MeaningfulBits(wire.a, wire.W) <= wire.W) =>
           wire.r2 = wire.a

(* C9 amended: shift by 0 is the identity; for p >= 0 with                 *)
(* p + meaningful_bits(a) <= W (two's-complement size, sign included) the  *)
(* round trip restores a; for p < 0 it restores a exactly when the low |p| *)
(* bits of a are 0.                                                        *)
C9_ShiftRoundTrip ==
    /\ (wire.pc # "start" /\ wire.p = 0) => wire.r1 = wire.a
    /\ (wire.pc = "done" /\ wire.p >= 0
          /\ wire.p + MeaningfulBits(wire.a, wire.W) <= wire.W) => wire.r2 = wire.a
    /\ (wire.pc = "done" /\ wire.p < 0) =>
           (wire.r2 = wire.a <=>
              \A i \in 0..(wire.W - 1) : i < Abs(wire.p) => wire.a[i] = 0)

(* C9 witness: a negative value shifted left by a positive amount within   *)
(* its headroom and back.                                                  *)
C9_Witness ==
    /\ wire.pc = "done" /\ wire.p > 0
    /\ wire.p + MeaningfulBits(wire.a, wire.W) <= wire.W
    /\ wire.a[wire.W - 1] = 1

(* C11: emitting a module that is not the top of the module stack is      *)
(* detected and reported as an error; no other module is popped.           *)
C11_DisciplineDetected ==
    [][\A m \in Mods :
          (GenerateVHDL(m) /\ Len(MODULE_STACK) > 0 /\ StackTop # m) =>
              (call'.err # NoErr /\ MODULE_STACK' = MODULE_STACK)]_vars

(* C12 as stated: a completed generateVHDL changes no signal and no        *)
(* module, only the module stack.                                          *)
C12_Original ==
    [][\A m \in Mods :
          (GenerateVHDL(m) /\ call'.err = NoErr) =>
              (sigs' = sigs /\ modules' = modules)]_vars

(* Some signal of module m has no width yet.                               *)
SomeWidthUnset(m) == \E v \in Range(modules[m].values) : sigs[v].width = None

(* C12 amended: generateVHDL on m changes nothing but (a) when some signal *)
(* of m has no width, the widths of signals that had none and the          *)
(* determined flag of m, and (b) the module stack, which loses its top     *)
(* entry when the call completes and is untouched when it raises before    *)
(* the file is written.                                                    *)
C12_EmitterFrame ==
    [][\A m \in Mods : GenerateVHDL(m) =>
          /\ Len(sigs') = Len(sigs) /\ Len(modules') = Len(modules)
          /\ \A s \in Sigs :
                /\ [sigs'[s] EXCEPT !.width = sigs[s].width] = sigs[s]
                /\ sigs'[s].width # sigs[s].width =>
                       (sigs[s].width = None /\ SomeWidthUnset(m))
          /\ \A n \in Mods :
                /\ [modules'[n] EXCEPT !.determined = modules[n].determined] = modules[n]
                /\ modules'[n].determined # modules[n].determined =>
                       (n = m /\ SomeWidthUnset(m) /\ modules'[n].determined)
          /\ IF call'.err = NoErr
             THEN MODULE_STACK' = SubSeq(MODULE_STACK, 1, Len(MODULE_STACK) - 1)
             ELSE MODULE_STACK' = MODULE_STACK]_vars

(* C12 witness: an emission completed on a module whose inference had run  *)
(* and given a width to a signal created without one.                      *)
C12_Witness ==
    \E m \in Mods : Emitted(m) /\ modules[m].determined /\
        \E v \in Range(modules[m].values) : ~Pinned(v) /\ sigs[v].width # None

(* C13: generateVHDL called twice in a row on the same module succeeds     *)
(* both times and writes the same file contents.                           *)
C13_EmitTwice ==
    [][\A m \in Mods :
          (Emitted(m) /\ GenerateVHDL(m)) =>
              (call'.err = NoErr /\ files'[m] = files[m])]_vars

(* C14: a generateVHDL that raises leaves every file as it was.            *)
C14_NoPartialFile ==
    [][\A m \in Mods :
          (GenerateVHDL(m) /\ call'.err # NoErr) => files' = files]_vars

(* C15: the input and output signals of every block belong to the module  *)
(* that holds the block.                                                   *)
C15_BlockOwnership ==
    \A m \in Mods : \A i \in 1..Len(modules[m].blocks) :
        \A s \in Range(modules[m].blocks[i].inputs) \cup Range(modules[m].blocks[i].outputs) :
            sigs[s].module = m

(* The digits of the value fit the int_bits digits left of the point.      *)
CsdFits(k, int_bits, total_bits) ==
    /\ to_csd(k, int_bits, total_bits).err = NoErr
    /\ LET s == IF CsdFrac > total_bits - int_bits
                THEN CsdFrac - (total_bits - int_bits) ELSE 0
       IN  \A e \in 0..(BitLen(Abs(k)) + 1) :
               e >= int_bits + CsdFrac - s => CsdDigit(RoundShift(k, s), e) = 0

(* C18: get_shifts(n, W, D) returns one (position, sign) pair per non-zero *)
(* digit of the CSD encoding of n with W - D integer digits and W digits   *)
(* in all, position W - D - i - 1 for digit index i: its length is the     *)
(* Hamming weight of that W-digit encoding.                                *)
C18_ShiftsFollowWidths ==
    (call.op \in {"get_shifts", "msa_get_shifts"} /\ CsdFits(call.a, call.p[1] - call.p[2], call.p[1])) =>
        LET W == call.p[1]
            D == call.p[2]
            csd == to_csd(call.a, W - D, W).digits
        IN  /\ call.err = NoErr
            /\ call.ret = ShiftsOfDigits(csd, W, D)
            /\ Len(call.ret) = Cardinality({j \in 1..W : csd[j] # 0})

(* The value of signal s of module m as a set of (column, position,       *)
(* positive) terms: an input column is itself at position 0, a shift moves *)
(* every term, an addition joins and a subtraction negates.                *)
Negated(ts) == {<<t[1], t[2], ~t[3]>> : t \in ts}

RECURSIVE TermsOf(_, _, _)
TermsOf(m, cols, s) ==
    LET bs == {i \in 1..Len(modules[m].blocks) : s \in Range(modules[m].blocks[i].outputs)}
        es == {i \in 1..Len(modules[m].entities) : modules[m].entities[i].d = s}
    IN  IF bs # {}
        THEN LET b == modules[m].blocks[CHOOSE i \in bs : TRUE]
             IN  IF b.kind = "ShiftBlock"
                 THEN {<<t[1], t[2] + b.positions, t[3]>> :
                          t \in TermsOf(m, cols, b.inputs[1])}
                 ELSE IF b.kind = "AssignBlock" THEN TermsOf(m, cols, b.inputs[1])
                 ELSE IF b.kind = "Add2Block"
                 THEN TermsOf(m, cols, b.inputs[1]) \cup TermsOf(m, cols, b.inputs[2])
                 ELSE TermsOf(m, cols, b.inputs[1])
                         \cup Negated(TermsOf(m, cols, b.inputs[2]))
        ELSE IF es # {}
        THEN LET e == modules[m].entities[CHOOSE i \in es : TRUE]
                 A == TermsOf(m, cols, e.a)
                 B == TermsOf(m, cols, e.b)
                 C == TermsOf(m, cols, e.c)
             IN  IF e.beh = "add_addw" THEN A \cup B \cup C
                 ELSE IF e.beh = "add_subw" THEN A \cup B \cup Negated(C)
                 ELSE A \cup Negated(B) \cup Negated(C)
        ELSE {<<x, 0, TRUE>> : x \in {x \in 1..cols : modules[m].values[x] = s}}

(* The output signals of module m: assigned and never read.                *)
OutputsOf(m) ==
    {s \in Range(modules[m].values) : sigs[s].assigned > 0 /\ sigs[s].accessed = 0}

(* Every line of the matrix has one, two or three terms, none of them a    *)
(* shift by the whole width or more.                                       *)
SmallRows(M, W, D) ==
    \A y \in 1..Len(M) :
        /\ Len(RowTerms(M[y], W, D)) \in 1..3
        /\ \A t \in Range(RowTerms(M[y], W, D)) : Abs(t[2]) < W

(* C16: gen_fblock yields a module computing y = M v: one output signal    *)
(* per matrix line, and for every line with 1, 2 or 3 terms and every      *)
(* combination of signs the line's output is the sum over its terms of     *)
(* sign times the column's input shifted by the term's position.           *)
C16_FblockComputes ==
    (call.op = "gen_fblock" /\ SmallRows(call.a, call.p[1], call.p[2])) =>
        LET M == call.a
            m == call.mod
        IN  /\ call.err = NoErr
            /\ \E out \in [1..Len(M) -> OutputsOf(m)] :
                  /\ \A y1, y2 \in 1..Len(M) : out[y1] = out[y2] => y1 = y2
                  /\ Range(out) = OutputsOf(m)
                  /\ \A y \in 1..Len(M) :
                        TermsOf(m, Len(M[1]), out[y])
                            = Range(RowTerms(M[y], call.p[1], call.p[2]))

(* The number of negative terms of a line.                                 *)
Negatives(terms) == Cardinality({i \in 1..Len(terms) : ~terms[i][3]})

(* C17: for a line with exactly three terms gen_fblock emits one add3,     *)
(* tagged add_addw when all three signs are positive, add_subw when        *)
(* exactly one is negative, with a positive operand first, and sub_subw    *)
(* when exactly two are negative.                                          *)
C17_Add3Tags ==
    (call.op = "gen_fblock" /\ SmallRows(call.a, call.p[1], call.p[2])) =>
        LET M == call.a
            m == call.mod
            three == {y \in 1..Len(M) :
                        /\ Len(RowTerms(M[y], call.p[1], call.p[2])) = 3
                        /\ Negatives(RowTerms(M[y], call.p[1], call.p[2])) < 3}
            ents == modules[m].entities
            unsigned(ts) == {<<t[1], t[2]>> : t \in ts}
        IN  three # {} =>
              /\ call.err = NoErr
              /\ \A y \in three :
                    LET terms == RowTerms(M[y], call.p[1], call.p[2])
                        n == Negatives(terms)
                        mine == {i \in 1..Len(ents) :
                                   unsigned(TermsOf(m, Len(M[1]), ents[i].d))
                                       = unsigned(Range(terms))}
                    IN  /\ Cardinality(mine) = 1
                        /\ \A i \in mine :
                              /\ ents[i].beh = (IF n = 0 THEN "add_addw"
                                                ELSE IF n = 1 THEN "add_subw"
                                                ELSE "sub_subw")
                              /\ n = 1 => \E t \in Range(terms) :
                                    t[3] /\ TermsOf(m, Len(M[1]), ents[i].a)
                                              = {<<t[1], t[2], TRUE>>}

(* The state decomp_p2d has returned in.                                    *)
P2dReturned == call.op = "decomp_p2d" /\ call.a.pc = "returned"

P2dContract ==
    call.op = "decomp_p2d" =>
        /\ call.a.iters <= PMax + 1
        /\ call.a.pc = "returned" =>
              /\ (call.ret # <<>>) <=>
                    (call.a.snr >= call.a.sqnr_target /\ call.p <= PMax)
              /\ call.ret # <<>> =>
                    /\ call.ret = <<call.a.factors, call.a.snr, call.a.adds, call.p>>
                    /\ \A s \in 1..call.a.slices : call.ret[1][s] = FactorList(call.p)

(* C19: decomp_p2d always terminates, its loop body runs at most 201       *)
(* times; it returns (factors, snr, adds, p) only when snr >= sqnr_target  *)
(* and p <= 200, and then every slice's factor list is the identity        *)
(* followed by exactly p factors; in every other case it returns None.     *)
C19_P2dTerminates ==
    /\ []P2dContract
    /\ (call.op = "decomp_p2d") ~> P2dReturned

(* C19 witness: decomp_p2d has returned a result found in the 200th pass,  *)
(* for a matrix of more than one slice.                                    *)
C19_Witness ==
    /\ P2dReturned
    /\ call.ret # <<>>
    /\ call.p = PMax
    /\ call.a.slices > 1

(* C20: a decomposition that does not converge returns None: decomp_lzd    *)
(* returns None when the solver ends below sqnr_target, as decomp_p2d does *)
(* when its iteration cap is exceeded.                                     *)
C20_LzdFailureIsNone ==
    /\ (P2dReturned /\ call.p > PMax) => call.ret = <<>>
    /\ (call.op = "decomp_lzd" /\ call.ret # <<>>) => call.ret[2] >= call.a.sqnr_target

(* The ordered lists of widths in 1..y that sum to tot.                    *)
RECURSIVE Slicings(_, _)
Slicings(tot, y) ==
    IF tot = 0 THEN {<<>>}
    ELSE UNION {{<<f>> \o s : s \in Slicings(tot - f, y)} : f \in 1..(IF y < tot THEN y ELSE tot)}

(* C21: generate_all_slicings(tot, y) terminates for tot >= 1, y >= 1 and  *)
(* returns every ordered list of widths in 1..y summing to tot exactly     *)
(* once and nothing else, the single-slice list [tot] included when        *)
(* tot <= y.                                                               *)
C21_AllSlicings ==
    /\ [](call.a.pc = "returned" =>
            /\ Range(call.ret) = Slicings(call.a.tot, call.a.y)
            /\ \A i, j \in 1..Len(call.ret) : call.ret[i] = call.ret[j] => i = j)
    /\ <>(call.a.pc = "returned")

(* The blocks a step has appended to module m.                             *)
NewBlocks(m) == SubSeq(modules'[m].blocks, Len(modules[m].blocks) + 1, Len(modules'[m].blocks))

(* The operands under signal r in the tree the new blocks of module m      *)
(* form, left to right, and the depth of that tree.                        *)
RECURSIVE TreeLeaves(_, _)
TreeLeaves(bs, r) ==
    LET d == {i \in 1..Len(bs) : bs[i].outputs = <<r>>}
    IN  IF d = {} THEN <<r>>
        ELSE LET b == bs[CHOOSE i \in d : TRUE]
             IN  TreeLeaves(bs, b.inputs[1]) \o TreeLeaves(bs, b.inputs[2])

RECURSIVE TreeDepth(_, _)
TreeDepth(bs, r) ==
    LET d == {i \in 1..Len(bs) : bs[i].outputs = <<r>>}
    IN  IF d = {} THEN 0
        ELSE LET b == bs[CHOOSE i \in d : TRUE]
                 l == TreeDepth(bs, b.inputs[1])
                 h == TreeDepth(bs, b.inputs[2])
             IN  1 + (IF l > h THEN l ELSE h)

(* ceil(log2 n) for n >= 1 *)
RECURSIVE CeilLog2(_)
CeilLog2(n) == IF n <= 1 THEN 0 ELSE 1 + CeilLog2((n + 1) \div 2)

(* C22: Integer.acc raises for no operand, returns the single operand      *)
(* itself without a block for one, and for n >= 2 with tia disabled        *)
(* creates exactly n-1 Add2 blocks forming a balanced tree of depth        *)
(* ceil(log2 n) whose root sums all n operands, each used exactly once.    *)
C22_AccTree ==
    [][(call'.op = "acc" /\ call'.p = 0) =>
             LET list == call'.a
                 n == Len(list)
                 m == sigs[list[1]].module
             IN  /\ n = 0 => call'.err # NoErr /\ sigs' = sigs /\ modules' = modules
                 /\ n = 1 => /\ call'.err = NoErr /\ call'.ret = <<list[1]>>
                             /\ sigs' = sigs /\ modules' = modules
                 /\ n >= 2 =>
                       /\ call'.err = NoErr
                       /\ Len(NewBlocks(m)) = n - 1
                       /\ \A i \in 1..(n - 1) : NewBlocks(m)[i].kind = "Add2Block"
                       /\ \A k \in Mods \ {m} : modules'[k] = modules[k]
                       /\ TreeLeaves(NewBlocks(m), call'.ret[1]) = list
                       /\ TreeDepth(NewBlocks(m), call'.ret[1]) = CeilLog2(n)]_vars

(* C22 witness: acc with tia disabled has summed three operands, a number  *)
(* that is not a power of two, with two Add2 blocks.                       *)
C22_Witness ==
    /\ call.op = "acc"
    /\ call.p = 0
    /\ call.err = NoErr
    /\ Len(call.a) = 3
    /\ \E m \in Mods : Len(modules[m].blocks) = 2

(* ---------------------------- Integer.constant ------------------------ *)

(* int(abs(n * 2**decimals)) for n = q / 2^ConstFrac.                      *)
ConstMag(q, decimals) ==
    ((IF q < 0 THEN 0 - q ELSE q) * Pow2(decimals)) \div Pow2(ConstFrac)

(* Integer.constant(n, width, decimals) for n = q / 2^ConstFrac: a new     *)
(* Integer in the open module, assigned once, its generator the literal.   *)
constant(S, Ms, stack, q, width, decimals) ==
    IF Len(stack) = 0
    THEN [sigs |-> S, modules |-> Ms, err |-> "NoOpenModule", ret |-> 0]
    ELSE LET x == Len(S) + 1
             m == stack[Len(stack)]
             lit == ConstantBits(ConstMag(q, decimals), q < 0, width)
         IN  [sigs |-> Append(S, [NewSort(m, width, 0) EXCEPT
                                    !.assigned = 1, !.gens = <<lit>>]),
              modules |-> add_value(Ms, m, x), err |-> NoErr, ret |-> x]

Constant(q, width, decimals) ==
    /\ Len(sigs) < MaxConstSignals
    /\ LET r == constant(sigs, modules, MODULE_STACK, q, width, decimals)
       IN  /\ sigs' = r.sigs
           /\ modules' = r.modules
           /\ call' = [NoCall EXCEPT !.op = "constant", !.a = <<q, width, decimals>>,
                                     !.ret = IF r.err = NoErr THEN <<r.ret>> ELSE <<>>,
                                     !.err = r.err]
    /\ UNCHANGED <<MODULE_STACK, files, wire>>

NextConst ==
    \/ NewModule(1)
    \/ \E q \in (0 - MaxConst)..MaxConst, d \in 0..MaxDecimals :
          Constant(q, MaxConstWidth, d)

SpecConst == Init /\ [][NextConst]_vars

(* ---------------------------- Module.add_module ----------------------- *)

(* The name a port is bound by in the signals dictionary.                  *)
PortKey(port) == <<port.pre, port.n>>

(* One pass of the loop over the child's ports: a port named in signals    *)
(* is connected to that signal, which counts an access (pin) or an         *)
(* assignment (pout); any other port is copied into the parent with        *)
(* Integer.copy and the copy is counted the same way.  The direction       *)
(* written to _internal_port is kept with the connection.                  *)
RECURSIVE WirePorts(_, _, _, _, _)
WirePorts(st, self, ports, i, signals) ==
    IF i > Len(ports) THEN st
    ELSE LET port == ports[i]
             dir == IF port.pre = "pin" THEN "in" ELSE "out"
             bound == PortKey(port) \in DOMAIN signals
             c == copy(st.sigs, st.modules, port.sig, self)
             s == IF bound THEN signals[PortKey(port)] ELSE c.ret
             S == IF bound THEN st.sigs ELSE c.sigs
             next == [sigs |-> IF dir = "in" THEN [S EXCEPT ![s].accessed = @ + 1]
                               ELSE [S EXCEPT ![s].assigned = @ + 1],
                      modules |-> IF bound THEN st.modules ELSE c.modules,
                      conns |-> Append(st.conns, [sig |-> s, port |-> PortKey(port),
                                                  dir |-> dir]),
                      new |-> IF bound THEN st.new ELSE Append(st.new, s)]
         IN  CHOOSE r \in {WirePorts(n, self, ports, i + 1, signals) : n \in {next}} : TRUE

(* self.add_module(module, signals=signals): the child's ports from        *)
(* get_ports (inference included), out ports first, then the wiring and    *)
(* the entity record; returns the new signals.                             *)
add_module(S0, Ms0, self, module, signals) ==
    LET st == determine_signals(S0, Ms0[module])
        S == WithWidths(S0, st)
        ps == DiscoverPorts(S, Ms0[module], FALSE)
        ports == SelectSeq(ps, LAMBDA q : q.pre = "pout")
                    \o SelectSeq(ps, LAMBDA q : q.pre = "pin")
        Ms == [Ms0 EXCEPT ![module].determined = TRUE]
        w == WirePorts([sigs |-> S, modules |-> Ms, conns |-> <<>>, new |-> <<>>],
                       self, ports, 1, signals)
    IN  IF st.err # NoErr
        THEN [sigs |-> S, modules |-> Ms0, err |-> st.err, ret |-> <<>>]
        ELSE IF PortsRaise(S, Ms0[module], FALSE)
        THEN [sigs |-> S, modules |-> Ms, err |-> "TypeError", ret |-> <<>>]
        ELSE [sigs |-> w.sigs,
              modules |-> [w.modules EXCEPT ![self].entities =
                             Append(@, [module |-> module, connections |-> w.conns])],
              err |-> NoErr, ret |-> w.new]

AddModule(self, module, signals) ==
    /\ Len(modules[self].entities) < MaxEntities
    /\ LET r == add_module(sigs, modules, self, module, signals)
       IN  /\ sigs' = r.sigs
           /\ modules' = r.modules
           /\ call' = [NoCall EXCEPT !.op = "add_module", !.mod = self,
                                     !.a = <<module, DOMAIN signals>>,
                                     !.ret = r.ret, !.err = r.err]
    /\ UNCHANGED <<MODULE_STACK, files, wire>>

(* The dictionaries that bind some ports of the child to signals of the    *)
(* parent.                                                                 *)
Bindings(self, module) ==
    LET ps == DiscoverPorts(sigs, modules[module], FALSE)
        keys == {PortKey(ps[i]) : i \in 1..Len(ps)}
    IN  UNION {[K -> Range(modules[self].values)] : K \in SUBSET keys}

NextInst ==
    \/ NewModule(MaxInstModules)
    \/ NewInteger(MaxWidth, 0, MaxInstSignals)
    \/ \E a, b \in Sigs : Add(a, b, MaxInstSignals)
    \/ \E self, module \in Mods :
          /\ self # module
          /\ \E signals \in Bindings(self, module) : AddModule(self, module, signals)
    \/ \E m \in Mods : GetPorts(m)

SpecInst == Init /\ [][NextInst]_vars

(* -------------------------------- gen_p2d ------------------------------ *)

(* Matrix lines of c entries 0 or 1/2^CsdFrac, 1 to k of them not zero.    *)
P2dLines(c, k) ==
    {l \in [1..c -> {0, 1}] : Cardinality({x \in 1..c : l[x] # 0}) \in 1..k}

(* The factors of one slice of width 1 for r output rows: the first has    *)
(* 1 + pad columns and lines of up to k entries, the later ones r columns  *)
(* and one entry per line.                                                 *)
RECURSIVE P2dFactors(_, _, _, _)
P2dFactors(r, c, k, n) ==
    IF n = 0 THEN {<<>>}
    ELSE {<<m>> \o ms : m \in [1..r -> P2dLines(c, k)], ms \in P2dFactors(r, r, 1, n - 1)}

P2dSlices(r) ==
    UNION {P2dFactors(r, 1 + pad, 2, n) : pad \in 0..MaxPad, n \in 1..MaxP2dFactors}

(* gen_p2d(Ms, W, D, slice_dims, dim) before its first statement.          *)
GenP2dFrame(Ms, W, D, slice_dims, dim) ==
    [NoCall EXCEPT !.op = "gen_p2d",
                   !.a = [Ms |-> Ms, W |-> W, D |-> D, slice_dims |-> slice_dims,
                          dim |-> dim, v |-> <<>>, zero |-> 0, v_used |-> 0,
                          zs |-> <<>>, fblocks |-> <<>>, vp |-> <<>>, outs |-> <<>>,
                          slice |-> 1, factor |-> 1, row |-> 1, err |-> NoErr,
                          pc |-> "call"]]

GenP2dInit ==
    /\ MODULE_STACK = <<>>
    /\ modules = <<>>
    /\ sigs = <<>>
    /\ files = <<>>
    /\ wire = NoWire
    /\ \E r \in 1..MaxP2dRows, n \in 1..MaxP2dSlices :
          \E Ms \in [1..n -> P2dSlices(r)] :
             call = GenP2dFrame(Ms, MaxCsdW, 1, [i \in 1..n |-> 1], <<r, n>>)

(* An exception leaves gen_p2d.                                            *)
GenP2dRaise(fr, err) ==
    [call EXCEPT !.a = [fr EXCEPT !.pc = "raised", !.err = err], !.err = err]

(* The head of gen_p2d: the top module, dim[1] inputs with buffer 1 and    *)
(* the zero constant.                                                      *)
GenP2dOpen ==
    /\ call.op = "gen_p2d" /\ call.a.pc = "call"
    /\ LET fr == call.a
           mod == Len(modules) + 1
           stack == Append(MODULE_STACK, mod)
           c == fr.dim[2]
           v == [i \in 1..c |-> Len(sigs) + i]
           S0 == sigs \o [i \in 1..c |-> NewSort(mod, fr.W, 1)]
           M0 == [Append(modules, EmptyModule) EXCEPT ![mod].values = v]
           z == constant(S0, M0, stack, 0, fr.W, fr.D)
       IN  /\ MODULE_STACK' = stack
           /\ sigs' = z.sigs
           /\ modules' = z.modules
           /\ files' = Append(files, NoFile)
           /\ call' = [call EXCEPT !.mod = mod,
                          !.a = [fr EXCEPT !.v = v, !.zero = z.ret, !.pc = "slice"]]
    /\ UNCHANGED wire

(* l[a:b] of Python for 0 <= a: the elements a+1 .. min(b, len).           *)
ListSlice(l, a, b) == SubSeq(l, a + 1, IF b < Len(l) THEN b ELSE Len(l))

(* One pass of the loop over the factors of a slice: the intermediary      *)
(* vector for the first factor, gen_fblock, the binding of the block's     *)
(* input ports to vp by position, add_module; after the last factor of a   *)
(* slice its outputs join zs.                                              *)
GenP2dFactor ==
    /\ call.op = "gen_p2d" /\ call.a.pc = "slice"
    /\ LET fr == call.a
           mats == fr.Ms[fr.slice]
           sd == fr.slice_dims[fr.slice]
           pad == Len(mats[1][1]) - sd
           vp == IF fr.factor = 1
                 THEN ListSlice(fr.v, fr.v_used, fr.v_used + sd)
                         \o [i \in 1..(IF pad > 0 THEN pad ELSE 0) |-> fr.zero]
                 ELSE fr.vp
           used == IF fr.factor = 1 THEN fr.v_used + sd ELSE fr.v_used
           last == fr.factor = Len(mats)
       IN  \E g \in {gen_fblock(sigs, modules, MODULE_STACK, mats[fr.factor], fr.W, fr.D)} :
           \E st \in {determine_signals(g.sigs, g.modules[g.mod])} :
           \E S \in {WithWidths(g.sigs, st)} :
           \E ins \in {SelectSeq(DiscoverPorts(S, g.modules[g.mod], FALSE),
                                 LAMBDA q : q.pre = "pin")} :
              LET Ms1 == [g.modules EXCEPT ![g.mod].determined = TRUE]
                  signals == [k \in {PortKey(ins[i]) : i \in 1..Len(ins)} |->
                                vp[CHOOSE i \in 1..Len(ins) :
                                      /\ PortKey(ins[i]) = k
                                      /\ \A j \in (i + 1)..Len(ins) : PortKey(ins[j]) # k]]
              IN  /\ MODULE_STACK' = g.stack
                  /\ files' = Append(files, NoFile)
                  /\ IF g.err # NoErr
                     THEN /\ sigs' = g.sigs
                          /\ modules' = g.modules
                          /\ call' = GenP2dRaise(fr, g.err)
                     ELSE IF st.err # NoErr
                     THEN /\ sigs' = S
                          /\ modules' = g.modules
                          /\ call' = GenP2dRaise(fr, st.err)
                     ELSE IF PortsRaise(S, g.modules[g.mod], FALSE)
                     THEN /\ sigs' = S
                          /\ modules' = Ms1
                          /\ call' = GenP2dRaise(fr, "TypeError")
                     ELSE IF Len(ins) > Len(vp)
                     THEN /\ sigs' = S
                          /\ modules' = Ms1
                          /\ call' = GenP2dRaise(fr, "IndexError")
                     ELSE \E am \in {add_module(S, Ms1, call.mod, g.mod, signals)} :
                          /\ sigs' = am.sigs
                          /\ modules' = am.modules
                          /\ call' = IF am.err # NoErr THEN GenP2dRaise(fr, am.err)
                                     ELSE [call EXCEPT !.a =
                                            [fr EXCEPT
                                               !.vp = am.ret, !.v_used = used,
                                               !.fblocks = Append(@, g.mod),
                                               !.zs = IF last THEN Append(@, am.ret) ELSE @,
                                               !.factor = IF last THEN 1 ELSE @ + 1,
                                               !.slice = IF last THEN @ + 1 ELSE @,
                                               !.pc = IF last /\ fr.slice = Len(fr.Ms)
                                                      THEN "tree" ELSE "slice"]]
    /\ UNCHANGED wire

(* One pass of the adder tree loop: the row's outputs of all slices are    *)
(* accumulated and the sum gets one buffer stage.                          *)
GenP2dRow ==
    /\ call.op = "gen_p2d" /\ call.a.pc = "tree" /\ call.a.row <= call.a.dim[1]
    /\ LET fr == call.a
           short == \E i \in 1..Len(fr.zs) : Len(fr.zs[i]) < fr.row
           list == [i \in 1..Len(fr.zs) |-> fr.zs[i][fr.row]]
           zt == acc(sigs, modules, list, FALSE)
       IN  IF short
           THEN /\ call' = GenP2dRaise(fr, "IndexError")
                /\ UNCHANGED <<sigs, modules>>
           ELSE IF zt.err # NoErr
           THEN /\ sigs' = zt.sigs
                /\ modules' = zt.modules
                /\ call' = GenP2dRaise(fr, zt.err)
           ELSE /\ sigs' = [zt.sigs EXCEPT ![zt.ret].buffer = 1]
                /\ modules' = zt.modules
                /\ call' = [call EXCEPT !.a = [fr EXCEPT !.row = @ + 1,
                                                         !.outs = Append(@, zt.ret)]]
    /\ UNCHANGED <<MODULE_STACK, files, wire>>

(* return [mod] + fblocks *)
GenP2dReturn ==
    /\ call.op = "gen_p2d" /\ call.a.pc = "tree" /\ call.a.row > call.a.dim[1]
    /\ call' = [call EXCEPT !.a = [call.a EXCEPT !.pc = "returned"],
                            !.ret = <<call.mod>> \o call.a.fblocks]
    /\ UNCHANGED <<MODULE_STACK, modules, sigs, files, wire>>

NextGenP2d ==
    \/ GenP2dOpen
    \/ GenP2dFactor
    \/ GenP2dRow
    \/ GenP2dReturn

SpecGenP2d == GenP2dInit /\ [][NextGenP2d]_vars

(* gen_lzd up to the end of buffer insertion, over chains whose entries    *)
(* are 0 or 1.0 and selection matrices that pick nodes in rising order.    *)
LzdUnitRows(L) ==
    {r \in [1..L -> {0, Pow2(CsdFrac)}] : Cardinality({c \in 1..L : r[c] # 0}) \in 1..2}

RECURSIVE LzdUnitChains(_, _)
LzdUnitChains(D0, n) ==
    IF n = 0 THEN {<<>>}
    ELSE {Append(ms, r) : ms \in LzdUnitChains(D0, n - 1), r \in LzdUnitRows(n - 1 + D0)}

LzdProjections(D1, nodes) ==
    {[x \in 1..D1 |-> [y \in 1..nodes |->
          IF y \in S /\ Cardinality({z \in S : z <= y}) = x THEN 1 ELSE 0]] :
        S \in {T \in SUBSET (1..nodes) : Cardinality(T) = D1}}

LzdGraphInit ==
    /\ MODULE_STACK = <<>>
    /\ modules = <<>>
    /\ sigs = <<>>
    /\ files = <<>>
    /\ wire = NoWire
    /\ \E D0 \in 1..MaxLzdIn, D1 \in 1..MaxLzdOut :
          \E n \in 0..(MaxLzdNodes - D0) :
             \E mats \in LzdUnitChains(D0, n), Pj \in LzdProjections(D1, n + D0) :
                call = GenLzdFrame(D0, D1, mats, Pj, MaxWidth)

NextLzdGraph ==
    \/ LzdLayers
    \/ LzdPatch
    \/ LzdBuffers

SpecLzdGraph == LzdGraphInit /\ [][NextLzdGraph]_vars

(* The phases of gen_lzd that are over in the current state.               *)
LzdLayered == call.a.pc \in {"patch", "buffers", "open", "emit", "returned"} \/ Len(MODULE_STACK) > 0
LzdBuffered == call.a.pc \in {"open", "emit", "returned"} \/ Len(MODULE_STACK) > 0

LayerOf(n) == find_in_graph(call.a.graph, n)

(* C23: every computed node of gen_lzd lies in layer 1 + max(layer of its  *)
(* sources) and the inputs in layer 0, so every dependency goes from a     *)
(* strictly lower layer to a higher one and the graph has no cycle.        *)
C23_LayerAssignment ==
    LzdLayered =>
        LET f == call.a
        IN  /\ \A n \in 0..(f.D0 - 1) : LayerOf(n) = 0
            /\ \A n \in 0..(f.nn - 1) :
                  Cardinality({L \in 1..Len(f.graph) : n \in Range(f.graph[L])}) = 1
            /\ \A q \in 1..Len(f.mats) :
                  LET ls == {LayerOf(d[1]) : d \in Range(f.deps[q])}
                  IN  LayerOf(q - 1 + f.D0) = 1 + (CHOOSE m \in ls : \A l \in ls : l <= m)
            /\ \A e \in Range(Concat(f.deps)) : LayerOf(e[1]) < LayerOf(e[2])
            /\ \A e \in Range(f.edges) : LayerOf(e[1]) < LayerOf(e[2])

(* C23 witness: a node with two sources in different layers has been       *)
(* placed, in a graph of four layers.                                      *)
C23_Witness ==
    /\ call.a.pc = "patch"
    /\ Len(call.a.graph) = 4
    /\ \E q \in 1..Len(call.a.deps) : \E i, j \in 1..Len(call.a.deps[q]) :
          LayerOf(call.a.deps[q][i][1]) < LayerOf(call.a.deps[q][j][1])

(* The buffer nodes, and those of source s.                                *)
BufferNodes == {b[2] : b \in Range(call.a.buffers)}
BuffersFrom(s) == {b[2] : b \in {c \in Range(call.a.buffers) : c[1] = s}}

(* The node that carries source s in layer L on the way to target d.       *)
CarrierAt(s, d, L) ==
    IF L = LayerOf(s) THEN s
    ELSE IF L = LayerOf(d) THEN d
    ELSE CHOOSE b \in BuffersFrom(s) : LayerOf(b) = L

(* C24: after buffer insertion every edge joins layer L to layer L+1, an   *)
(* original edge over d > 1 layers runs through d-1 buffers, one in every  *)
(* layer between, every buffer has exactly one incoming edge, and a source *)
(* has at most one buffer in a layer.                                      *)
C24_BufferInsertion ==
    LzdBuffered =>
        LET f == call.a
        IN  /\ \A e \in Range(f.edges) : LayerOf(e[2]) = LayerOf(e[1]) + 1
            /\ \A b \in BufferNodes : Len(EdgeIn(f.edges, b)) = 1
            /\ \A s \in 0..(f.nn - 1) : \A b1, b2 \in BuffersFrom(s) :
                  LayerOf(b1) = LayerOf(b2) => b1 = b2
            /\ \A e \in Range(Concat(f.deps)) :
                  /\ \A L \in (LayerOf(e[1]) + 1)..(LayerOf(e[2]) - 1) :
                        \E b \in BuffersFrom(e[1]) : LayerOf(b) = L
                  /\ \A L \in LayerOf(e[1])..(LayerOf(e[2]) - 1) :
                        <<CarrierAt(e[1], e[2], L), CarrierAt(e[1], e[2], L + 1)>>
                            \in Range(f.edges)

(* C24 witness: a source has a chain of two buffers and one of its buffers *)
(* is shared by two edges.                                                 *)
C24_Witness ==
    /\ call.a.pc = "open"
    /\ \E s \in 0..(call.a.nn - 1) : Cardinality(BuffersFrom(s)) >= 2
    /\ \E b \in BufferNodes :
          Cardinality({i \in 1..Len(call.a.edges) : call.a.edges[i][1] = b}) >= 2

(* C25: terminal patching puts every output node read from Pj in the last  *)
(* layer: a terminal outside it is replaced by a new node of the last      *)
(* layer with one identity dependency from the terminal, a terminal in the *)
(* last layer stays.                                                       *)
C25_TerminalPatching ==
    [][LzdPatch =>
          LET f == call.a
              g == call'.a
              old == Range(Concat(f.graph))
          IN  /\ call'.err = NoErr
              /\ Len(g.graph) = Len(f.graph)
              /\ \A L \in 1..(Len(f.graph) - 1) : g.graph[L] = f.graph[L]
              /\ Len(g.final_nodes) = Len(f.final_nodes)
              /\ \A i \in 1..Len(f.final_nodes) :
                    /\ InLastLayer(g.graph, g.final_nodes[i])
                    /\ IF f.final_nodes[i] \in Range(f.graph[Len(f.graph)])
                       THEN g.final_nodes[i] = f.final_nodes[i]
                       ELSE /\ g.final_nodes[i] \notin old
                            /\ \A j \in 1..Len(f.final_nodes) :
                                  g.final_nodes[j] = g.final_nodes[i] => j = i
                            /\ {e \in Range(Concat(g.deps)) : e[2] = g.final_nodes[i]}
                                  = {<<f.final_nodes[i], g.final_nodes[i]>>}
              /\ Range(Concat(g.graph)) = old \cup Range(g.final_nodes)]_vars

(* C25 witness: of two terminals one was in the last layer and stayed, the *)
(* other was replaced by a new node.                                       *)
C25_Witness ==
    /\ call.a.pc = "buffers"
    /\ Len(call.a.graph) >= 3
    /\ \E i, j \in 1..Len(call.a.final_nodes) :
          /\ call.a.final_nodes[i] < Len(call.a.mats) + call.a.D0
          /\ call.a.final_nodes[j] >= Len(call.a.mats) + call.a.D0

(* C26: the work queue of gen_lzd runs to its end without an error, and   *)
(* no node that is not an input leaves the queue without a signal: such a  *)
(* node is waiting in the queue or has been realized.                      *)
C26_QueueRealizesAll ==
    LzdBuffered /\ call.a.pc # "open" =>
        /\ call.a.pc # "raised"
        /\ \A n \in call.a.D0..(call.a.nn - 1) :
              n \in Range(call.a.stack) \/ call.a.v[n] # None

(* C27: the edges code emission reads carry the shift amount of the        *)
(* dependency they come from, and a node with two incoming edges is the    *)
(* sum of its two sources, both shifted by the first edge's amount.        *)
C27_EdgesCarryShift ==
    LzdBuffered =>
        LET f == call.a
        IN  \A n \in f.D0..(f.nn - 1) :
               Len(EdgeIn(f.edges, n)) = 2 =>
                  /\ \A i \in 1..2 : Len(EdgeIn(f.edges, n)[i]) >= 4
                  /\ \E d \in Range(Concat(f.deps)) :
                        Len(d) >= 4 /\ d[2] = n /\ d[4] = EdgeIn(f.edges, n)[1][4]
                  /\ call.a.pc = "returned" => call.a.v[n] # None

(* The width-bit two's-complement pattern of sign * mag.                   *)
TwosComplement(mag, neg, width) ==
    FormatBinary(IF neg /\ mag > 0 THEN Pow2(width) - mag ELSE mag, width)

(* C28: Integer.constant(n, W, D) with |n * 2^D| < 2^(W-1) returns a       *)
(* signal of width W whose literal is the two's complement of              *)
(* trunc(n * 2^D), and a second call with the same arguments returns the   *)
(* same signal.                                                            *)
C28_ConstantLiteral ==
    [][(call'.op = "constant" /\ Len(MODULE_STACK) > 0
          /\ ConstMag(call'.a[1], call'.a[3]) < Pow2(call'.a[2] - 1)) =>
          /\ call'.err = NoErr
          /\ sigs'[call'.ret[1]].width = call'.a[2]
          /\ sigs'[call'.ret[1]].gens =
                <<TwosComplement(ConstMag(call'.a[1], call'.a[3]),
                                 call'.a[1] < 0, call'.a[2])>>
          /\ (call.op = "constant" /\ call.err = NoErr /\ call.a = call'.a) =>
                call'.ret = call.ret]_vars

(* The ports of module m as (direction, signal) pairs.                     *)
PortSet(S, Ms, m) ==
    LET ps == DiscoverPorts(S, Ms[m], FALSE)
    IN  {<<ps[i].pre, ps[i].sig>> : i \in 1..Len(ps)}

(* C29: add_module returns one new signal of the parent for every port of  *)
(* the child that is not bound, of the port's width, and leaves the child  *)
(* as it was: the counters of its signals and its set of ports are the     *)
(* same after the instantiation.                                           *)
C29_AddModuleFrame ==
    [][(call'.op = "add_module" /\ call'.err = NoErr) =>
          LET self == call'.mod
              child == call'.a[1]
              ps == DiscoverPorts(sigs', modules'[child], FALSE)
              free == SelectSeq(ps, LAMBDA q : PortKey(q) \notin call'.a[2])
          IN  /\ Len(call'.ret) = Len(free)
              /\ \A i \in 1..Len(call'.ret) :
                    /\ call'.ret[i] > Len(sigs)
                    /\ sigs'[call'.ret[i]].module = self
                    /\ \E q \in Range(free) : sigs'[call'.ret[i]].width = q.w
              /\ \A v \in Range(modules[child].values) :
                    /\ sigs'[v].accessed = sigs[v].accessed
                    /\ sigs'[v].assigned = sigs[v].assigned
              /\ PortSet(sigs', modules', child) = PortSet(sigs, modules, child)]_vars

(* C30: when gen_p2d returns, the input ports of the top module are the   *)
(* dim[1] inputs v, its output ports are the dim[0] row sums, each with    *)
(* buffer 1, and the zero constant is not a port.                          *)
C30_TopPorts ==
    (call.op = "gen_p2d" /\ call.a.pc = "returned") =>
        LET fr == call.a
            ps == PortSet(sigs, modules, call.mod)
        IN  /\ {q[2] : q \in {x \in ps : x[1] = "pin"}} = Range(fr.v)
            /\ Len(fr.v) = fr.dim[2]
            /\ {q[2] : q \in {x \in ps : x[1] = "pout"}} = Range(fr.outs)
            /\ Len(fr.outs) = fr.dim[1]
            /\ \A o \in Range(fr.outs) : sigs[o].buffer = 1
            /\ \A q \in ps : q[2] # fr.zero

====
